---- MODULE Spec2Model ----
(***************************************************************************)
(* The in-memory task queue (src/infrastructure/queue.py), its worker and  *)
(* client endpoints (src/infrastructure/router.py, src/commit, src/readme) *)
(* and the two-phase readme orchestrator get_readme_status                 *)
(* (src/readme/services.py).                                               *)
(*                                                                         *)
(* Every handler is an `async def` that contains no suspension point: the  *)
(* only awaits are on the MemoryQueue coroutines, which never yield to the *)
(* event loop.  One handler therefore runs to completion before the next   *)
(* starts, and each handler is one action.                                 *)
(***************************************************************************)
EXTENDS Integers, Sequences, FiniteSets, TLC

\* ------------------------------------------------------------------ bounds
MaxTasks == 2          \* number of uuids issued under Spec
MaxGcTasks == 2        \* number of uuids issued under GcSpec
MaxOrchTasks == 1      \* number of uuids issued under OrchSpec
MaxNow == 601          \* the clock stops here
MaxHoldTasks == 1      \* number of uuids issued under HoldSpec
MaxWorkers == 3        \* number of workers that call the worker endpoints under HoldSpec
MaxLoopTasks == 2      \* number of uuids issued under LoopSpec
MaxCoroutines == 2     \* number of requests the event loop serves at a time under LoopSpec
MaxLiveTasks == 2      \* number of uuids issued under LiveSpec

\* --------------------------------------------------------------- constants
TASK_TTL_SECONDS == 600

PENDING == "pending"
PROCESSING == "processing"
COMPLETED == "completed"
FAILED == "failed"

ANALYZE_TASK_TYPE == "analyze_repository_intent"
GENERATE_TASK_TYPE == "generate_readme"

ALLOWED_REPOSITORY_TYPES == {"research", "library", "service"}

\* Python's None and a present value: Optional[X] is <<>> or <<x>>.
None == <<>>
Some(x) == <<x>>

\* Python truthiness of an Optional[str] and of an Optional[list]: None, ""
\* and [] are falsy.
TruthyStr(opt) == opt # None /\ opt[1] # ""
TruthyList(opt) == opt # None /\ Len(opt[1]) > 0

\* ------------------------------------------------------------------- texts
\* A text is what the orchestrator can observe of it: whether it validates
\* as IntentAnalysis JSON, and which phrases occur in it (`phrase in text`).
\* The empty string holds no phrase and is no JSON.
FILLER == "lorem"
PR == "routes requests"
PRB == "less boilerplate"
NG == "not a framework"
DEFAULT_NON_GOAL == "This repository does not aim to replace the underlying framework."
DEFAULT_NON_GOAL_2 == "It focuses on a specific responsibility rather than end-to-end solutions."
DEFAULT_PROBLEM_REDUCED == "reducing boilerplate and clarifying a narrow responsibility"

Text(kind, words) == [kind |-> kind, words |-> words]
EmptyText == Text("plain", {})
IsEmptyText(t) == t.kind = "plain" /\ t.words = {}
Contains(phrase, t) == phrase \in t.words

\* What a worker may post as payload["result"] (None: the key is missing).
WorkerResults ==
    { None,
      Some(EmptyText),
      Some(Text("intent", {FILLER})),
      Some(Text("plain", {FILLER, PR})),
      Some(Text("plain", {FILLER, PR, PRB, NG, DEFAULT_PROBLEM_REDUCED, DEFAULT_NON_GOAL})) }

\* ------------------------------------------------------------------- facts
SemanticFacts(pr, prb, ng, confidence) ==
    [primary_responsibility |-> pr, problem_reduced |-> prb, non_goals |-> ng,
     confidence |-> confidence]

Fact(name, repo_type, sem) ==
    [repository |-> [name |-> name, repo_type |-> repo_type], semantic_facts |-> sem]

\* The FactJson bodies clients post.  repo_type is a Literal of the schema, so
\* only the three allowed values reach the handler.
Facts ==
    { Fact(Some("app"), "library",
           Some(SemanticFacts(Some(PR), Some(PRB), None, Some("high")))),
      Fact(Some("app"), "service",
           Some(SemanticFacts(None, None, Some(<<NG>>), Some("low")))),
      Fact(Some("app"), "research", None),
      Fact(None, "library", None) }

VARIABLES
    tasks,      \* MemoryQueue.tasks: the dict, as the sequence of its values in insertion order
    now,        \* time.time()
    issued,     \* how many uuids uuid.uuid4() has handed out
    last,       \* the response of the handler that ran last, and what the queue logged
    track,      \* per id: what has happened to the task since a worker last popped it
    resets,     \* per id: how often get_readme_status has put the task back to pending
    burst,      \* the results of the pop_task calls that ran back to back
    held,       \* per id: the workers pop_task handed the task to that have not yet called complete_task for it
    rejected,   \* per id: get_readme_status has failed the task's analysis (kept under HoldSpec)
    told,       \* per id: the final status, completed or failed, that get_readme_result last answered (kept under HoldSpec)
    loop        \* the asyncio event loop: the coroutine that runs, and each coroutine's statement and locals (kept under LoopSpec)

vars == <<tasks, now, issued, last, track, resets, burst, held, rejected, told, loop>>

\* ------------------------------------------------- infrastructure/schemas.py
LLMTask(id, domain, task_type, status, system_instruction, user_message, result, created_at) ==
    [id |-> id, domain |-> domain, task_type |-> task_type, status |-> status,
     system_instruction |-> system_instruction, user_message |-> user_message,
     result |-> result, created_at |-> created_at]

\* --------------------------------------------------- infrastructure/queue.py
Ids(ts) == {ts[i].id : i \in DOMAIN ts}
IndexOf(ts, task_id) == CHOOSE i \in DOMAIN ts : ts[i].id = task_id
Lookup(ts, task_id) == ts[IndexOf(ts, task_id)]

\* Mutants of IsOld: the age test is >= instead of >; the status test is left out.
IsOldInclusive(task, current_time) ==
    /\ task.status = COMPLETED
    /\ current_time - task.created_at >= TASK_TTL_SECONDS

IsOldAnyStatus(task, current_time) ==
    current_time - task.created_at > TASK_TTL_SECONDS

\* Two more: analysis records are spared; failed records are collected too.
IsOldGenerationOnly(task, current_time) ==
    /\ task.status = COMPLETED
    /\ task.task_type # Some(ANALYZE_TASK_TYPE)
    /\ current_time - task.created_at > TASK_TTL_SECONDS

IsOldFinished(task, current_time) ==
    /\ task.status \in {COMPLETED, FAILED}
    /\ current_time - task.created_at > TASK_TTL_SECONDS

\* _cleanup_old_tasks, the test of one record: "Only delete if it's DONE and OLD".
IsOld(task, current_time) ==
    /\ task.status = COMPLETED
    /\ current_time - task.created_at > TASK_TTL_SECONDS

KeysToDelete(ts, current_time) ==
    {ts[i].id : i \in {j \in DOMAIN ts : IsOld(ts[j], current_time)}}

\* _cleanup_old_tasks: del self.tasks[key] for every key collected.
CleanupOldTasks(ts, current_time) ==
    LET keys_to_delete == KeysToDelete(ts, current_time)
        Keep(t) == t.id \notin keys_to_delete
    IN  SelectSeq(ts, Keep)

\* self.tasks[task.id] = task: a new key goes last, a known key keeps its place.
DictSet(ts, task) ==
    IF task.id \in Ids(ts)
    THEN [ts EXCEPT ![IndexOf(ts, task.id)] = task]
    ELSE Append(ts, task)

\* Mutant of AddTask: the record is stored without the garbage collector running.
AddTaskNoCleanup(ts, task, current_time) ==
    DictSet(ts, task)

\* Mutant of AddTask: the record is stored first, then the garbage collector runs.
AddTaskCleanupAfter(ts, task, current_time) ==
    CleanupOldTasks(DictSet(ts, task), current_time)

\* add_task: the garbage collector runs first, then the record is stored.
AddTask(ts, task, current_time) ==
    DictSet(CleanupOldTasks(ts, current_time), task)

\* get_task: self.tasks.get(task_id)
GetTask(ts, task_id) ==
    IF task_id \in Ids(ts) THEN Some(Lookup(ts, task_id)) ELSE None

\* Mutants of FirstPending: the loop looks at the first record only; the loop
\* keeps the last match instead of returning at the first; the loop takes any
\* record that is not finished.
FirstPendingOrProcessing(ts) ==
    LET open == {i \in DOMAIN ts : ts[i].status \in {PENDING, PROCESSING}}
    IN  IF open = {} THEN 0
        ELSE CHOOSE i \in open : \A j \in open : i <= j

FirstPendingHeadOnly(ts) ==
    IF Len(ts) > 0 /\ ts[1].status = PENDING THEN 1 ELSE 0

FirstPendingNewest(ts) ==
    LET pending == {i \in DOMAIN ts : ts[i].status = PENDING}
    IN  IF pending = {} THEN 0
        ELSE CHOOSE i \in pending : \A j \in pending : i >= j

\* One more: the loop takes a pending record only while it is in its first
\* phase, so a record put back to pending is never handed out again.
FirstPendingAnalysisOnly(ts) ==
    LET pending == {i \in DOMAIN ts : /\ ts[i].status = PENDING
                                       /\ ts[i].task_type = Some(ANALYZE_TASK_TYPE)}
    IN  IF pending = {} THEN 0
        ELSE CHOOSE i \in pending : \A j \in pending : i <= j

\* And one that orders by timestamp: the pending record with the smallest
\* created_at, the first of them in dict order.
FirstPendingOldestStamp(ts) ==
    LET pending == {i \in DOMAIN ts : ts[i].status = PENDING}
        oldest == {i \in pending : \A j \in pending : ts[i].created_at <= ts[j].created_at}
    IN  IF pending = {} THEN 0
        ELSE CHOOSE i \in oldest : \A j \in oldest : i <= j

\* pop_pending_task, the loop: the first record in dict order that is pending
\* (0: the loop falls through).
FirstPending(ts) ==
    LET pending == {i \in DOMAIN ts : ts[i].status = PENDING}
    IN  IF pending = {} THEN 0
        ELSE CHOOSE i \in pending : \A j \in pending : i <= j

\* Mutant of PopPendingTask: the task is returned but not marked processing.
PopPendingTaskUnmarked(ts) ==
    IF \E i \in DOMAIN ts : ts[i].status = PENDING
    THEN [tasks |-> ts,
          ret |-> Some(ts[CHOOSE i \in DOMAIN ts : ts[i].status = PENDING])]
    ELSE [tasks |-> ts, ret |-> None]

\* pop_pending_task: [tasks: the dict afterwards, ret: the task returned or None]
PopPendingTask(ts) ==
    LET i == FirstPending(ts)
    IN  IF i = 0 THEN [tasks |-> ts, ret |-> None]
        ELSE LET claimed == [ts[i] EXCEPT !.status = PROCESSING]
             IN  [tasks |-> [ts EXCEPT ![i] = claimed], ret |-> Some(claimed)]

\* Mutants of CompleteTask: the timestamp is not refreshed; a missing record
\* is created.
CompleteTaskKeepsTimestamp(ts, task_id, result, current_time) ==
    IF task_id \in Ids(ts)
    THEN LET done == [Lookup(ts, task_id) EXCEPT !.status = COMPLETED, !.result = result]
         IN  [tasks |-> [ts EXCEPT ![IndexOf(ts, task_id)] = done], ret |-> Some(done)]
    ELSE [tasks |-> ts, ret |-> None]

CompleteTaskUpsert(ts, task_id, result, current_time) ==
    LET made == LLMTask(task_id, "readme", None, COMPLETED, None, [kind |-> "text", value |-> ""],
                        result, current_time)
        done == IF task_id \in Ids(ts)
                THEN [Lookup(ts, task_id) EXCEPT !.status = COMPLETED,
                                                 !.result = result,
                                                 !.created_at = current_time]
                ELSE made
    IN  [tasks |-> DictSet(ts, done), ret |-> Some(done)]

\* complete_task: no test but `task_id in self.tasks`.
CompleteTask(ts, task_id, result, current_time) ==
    IF task_id \in Ids(ts)
    THEN LET done == [Lookup(ts, task_id) EXCEPT !.status = COMPLETED,
                                                 !.result = result,
                                                 !.created_at = current_time]
         IN  [tasks |-> [ts EXCEPT ![IndexOf(ts, task_id)] = done], ret |-> Some(done)]
    ELSE [tasks |-> ts, ret |-> None]

\* ------------------------------------------------------- readme/services.py
\* json.dumps / json.loads: a JSON string carries the dict it was dumped from
\* (a key the dict lacks reads as None, as dict.get does); any other string
\* makes json.loads raise JSONDecodeError.
JsonDumps(payload) == [kind |-> "json", value |-> payload]
PlainString(text) == [kind |-> "text", value |-> text]
JsonLoads(s) ==
    IF s.kind = "json" THEN [ok |-> TRUE, value |-> s.value]
    ELSE [ok |-> FALSE, value |-> None]

Payload(repository, analysis_context, semantic_facts, conservative, retry) ==
    [repository |-> repository, analysis_context |-> analysis_context,
     semantic_facts |-> semantic_facts, conservative |-> conservative,
     retry_strict_grounding |-> retry]

\* str.strip on the names clients post: a name of blanks strips to "".
BlankStrings == {"", " "}
Strip(str) == IF str \in BlankStrings THEN "" ELSE str

\* RepositoryInfo: repo_type is a Literal of the three types, so a body with
\* another or no repo_type (written "") is refused with 422 before the handler.
RepositoryInfo(fact) == fact.repository.repo_type \in {"research", "library", "service"}

\* validate_fact that finds no error.
ValidateFactLax(fact) == {}

\* validate_fact: the list of errors.
ValidateFact(fact) ==
    (IF ~TruthyStr(fact.repository.name) \/ Strip(fact.repository.name[1]) = ""
     THEN {"repository.name is required"} ELSE {})
    \cup
    (IF fact.repository.repo_type \notin ALLOWED_REPOSITORY_TYPES
     THEN {"repository.repo_type must be one of the allowed types"} ELSE {})

\* select_readme_system_prompt: None stands for the ValueError it raises.
SelectReadmeSystemPrompt(repo_type) ==
    IF repo_type \in ALLOWED_REPOSITORY_TYPES THEN Some(<<"readme", repo_type>>) ELSE None

BuildSystemPrompt(repo_type) == SelectReadmeSystemPrompt(repo_type)

IntentSystemPrompt == Some(<<"intent">>)

\* build_intent_user_message
BuildIntentUserMessage(fact) ==
    JsonDumps(Payload(Some(fact.repository), None, fact.semantic_facts, None, None))

\* apply_semantic_sideguards
ApplySemanticSideguards(semantic_facts, conservative) ==
    IF semantic_facts = None
    THEN [semantic_facts |-> semantic_facts, conservative |-> conservative]
    ELSE LET sf == semantic_facts[1]
             no_goals == ~TruthyList(sf.non_goals)
             sf1 == IF no_goals
                    THEN [sf EXCEPT !.non_goals = Some(<<DEFAULT_NON_GOAL, DEFAULT_NON_GOAL_2>>)]
                    ELSE sf
             no_problem == ~TruthyStr(sf1.problem_reduced)
             sf2 == IF no_problem
                    THEN [sf1 EXCEPT !.problem_reduced = Some(DEFAULT_PROBLEM_REDUCED)]
                    ELSE sf1
         IN  [semantic_facts |-> Some(sf2),
              conservative |-> conservative \/ no_goals \/ no_problem]

\* build_readme_user_message
BuildReadmeUserMessage(repository, analysis_context, semantic_facts, conservative) ==
    JsonDumps(Payload(repository, analysis_context, semantic_facts, Some(conservative), None))

\* should_retry_strict_grounding, the list `required`.
RequiredAnchors(sf) ==
    (IF TruthyStr(sf.primary_responsibility) THEN <<sf.primary_responsibility[1]>> ELSE <<>>)
    \o (IF TruthyStr(sf.problem_reduced) THEN <<sf.problem_reduced[1]>> ELSE <<>>)
    \o (IF TruthyList(sf.non_goals) THEN <<sf.non_goals[1][1]>> ELSE <<>>)

\* should_retry_strict_grounding
ShouldRetryStrictGrounding(readme, semantic_facts) ==
    IF semantic_facts = None \/ IsEmptyText(readme) THEN FALSE
    ELSE LET required == RequiredAnchors(semantic_facts[1])
         IN  IF Len(required) < 3 THEN FALSE
             ELSE \/ ~Contains(required[1], readme)
                  \/ ~Contains(required[2], readme)
                  \/ ~Contains(required[3], readme)

\* apply_strict_grounding_prompt
ApplyStrictGroundingPrompt(system_prompt) == system_prompt

\* IntentAnalysis.model_validate_json(task.result or "{}"): "{}" lacks the
\* required fields, so a missing or empty result does not validate.
ValidatesAsIntent(result) ==
    /\ result # None
    /\ result[1].kind \in {"intent", "intent_thin"}

\* build_analysis_context, or None when the intent names no responsibility
\* or nothing it builds on.
AnalysisContextOf(result) ==
    IF result[1].kind = "intent" THEN Some("analysis_context") ELSE None

\* ReadmePollResponse
ReadmePollResponse(task_id, status, content, error) ==
    [task_id |-> task_id, status |-> status, content |-> content, error |-> error]

\* `task.result or ""`
ResultOrEmpty(result) == IF result = None THEN EmptyText ELSE result[1]

\* payload.get("repository", {}).get("repo_type")
RepoTypeOf(payload) ==
    IF payload.repository = None THEN None ELSE Some(payload.repository[1].repo_type)

EmptyPayload == Payload(None, None, None, None, None)

\* Mutant of PhaseRewrite: the analysis result is left on the rewritten record.
PhaseRewriteKeepsResult(task, payload, current_time) ==
    LET guarded == ApplySemanticSideguards(payload.semantic_facts, FALSE)
        rewritten == [task EXCEPT
                        !.task_type = Some(GENERATE_TASK_TYPE),
                        !.status = PENDING,
                        !.system_instruction = BuildSystemPrompt(RepoTypeOf(payload)[1]),
                        !.user_message = BuildReadmeUserMessage(
                                             payload.repository,
                                             AnalysisContextOf(task.result),
                                             guarded.semantic_facts,
                                             guarded.conservative),
                        !.created_at = current_time]
    IN  [task |-> rewritten, raised |-> FALSE,
         resp |-> Some(ReadmePollResponse(task.id, PENDING, None, None))]

\* Mutant of PhaseRewrite: the generation task is stored under a new id.
PhaseRewriteNewId(task, payload, current_time) ==
    LET out == PhaseRewriteKeepsResult(task, payload, current_time)
    IN  [out EXCEPT !.task = [out.task EXCEPT !.id = task.id + 1, !.result = None]]

\* Mutant of PhaseRewrite: the record is put back to pending as an analysis
\* task.
PhaseRewriteStaysAnalyze(task, payload, current_time) ==
    LET out == PhaseRewriteKeepsResult(task, payload, current_time)
    IN  [out EXCEPT !.task = [out.task EXCEPT !.task_type = task.task_type,
                                              !.result = None]]

\* get_readme_status, lines 1133-1181: the analysis task becomes the
\* generation task under the same id.  build_system_prompt runs after
\* task_type and status are assigned; were it to raise, the record would keep
\* those two assignments and nothing else (raised: the handler ends in a 500).
PhaseRewrite(task, payload, current_time) ==
    LET repo_type == RepoTypeOf(payload)[1]
        started == [task EXCEPT !.task_type = Some(GENERATE_TASK_TYPE), !.status = PENDING]
        prompt == BuildSystemPrompt(repo_type)
        semantic_facts == payload.semantic_facts
        conservative == semantic_facts # None /\ semantic_facts[1].confidence = Some("low")
        guarded == ApplySemanticSideguards(semantic_facts, conservative)
        rewritten == [started EXCEPT
                        !.system_instruction = prompt,
                        !.user_message = BuildReadmeUserMessage(
                                             payload.repository,
                                             AnalysisContextOf(task.result),
                                             guarded.semantic_facts,
                                             guarded.conservative),
                        !.result = None,
                        !.created_at = current_time]
    IN  IF prompt = None
        THEN [task |-> started, raised |-> TRUE, resp |-> None]
        ELSE [task |-> rewritten, raised |-> FALSE,
              resp |-> Some(ReadmePollResponse(task.id, PENDING, None, None))]

\* Mutant of FailTask: failing the record also stamps it with the time of the poll.
FailTaskRestamped(task, error) ==
    [task |-> [task EXCEPT !.status = FAILED, !.created_at = now], raised |-> FALSE,
     resp |-> Some(ReadmePollResponse(task.id, FAILED, None, Some(error)))]

\* get_readme_status, lines 1092-1098, 1103-1109, 1125-1131 and 1206-1212:
\* the record is marked failed and the error is reported.
FailTask(task, error) ==
    [task |-> [task EXCEPT !.status = FAILED], raised |-> FALSE,
     resp |-> Some(ReadmePollResponse(task.id, FAILED, None, Some(error)))]

\* get_readme_status, lines 1214-1218: the record as it stands.
ReportTask(task) ==
    [task |-> task, raised |-> FALSE,
     resp |-> Some(ReadmePollResponse(task.id, task.status, task.result, None))]

\* get_readme_status, lines 1088-1181: a completed analysis task.
AnalysisCompleted(task, current_time) ==
    LET loaded == JsonLoads(task.user_message)
    IN  IF ~ValidatesAsIntent(task.result)
        THEN FailTask(task, "Invalid intent analysis JSON")
        ELSE IF ~loaded.ok
        THEN FailTask(task, "Invalid intent task payload")
        ELSE IF ~TruthyStr(RepoTypeOf(loaded.value))
        THEN FailTask(task, "Missing repository.repo_type in intent task payload")
        ELSE PhaseRewrite(task, loaded.value, current_time)

\* Mutant of GroundingRetry: the ungrounded readme is left on the retried record.
GroundingRetryKeepsResult(task, payload, current_time) ==
    LET retried == [task EXCEPT
                      !.status = PENDING,
                      !.user_message =
                          JsonDumps([payload EXCEPT !.retry_strict_grounding = Some(TRUE)]),
                      !.created_at = current_time]
    IN  [task |-> retried, raised |-> FALSE,
         resp |-> Some(ReadmePollResponse(task.id, PENDING, None, None))]

\* Another: the retry is not noted in the payload.
GroundingRetryUnmarked(task, payload, current_time) ==
    LET retried == [task EXCEPT !.status = PENDING, !.result = None,
                                !.created_at = current_time]
    IN  [task |-> retried, raised |-> FALSE,
         resp |-> Some(ReadmePollResponse(task.id, PENDING, None, None))]

\* get_readme_status, lines 1190-1205: the one stricter attempt.
GroundingRetry(task, payload, current_time) ==
    LET retried == [task EXCEPT
                      !.status = PENDING,
                      !.system_instruction =
                          ApplyStrictGroundingPrompt(
                              IF task.system_instruction # None
                              THEN task.system_instruction
                              ELSE BuildSystemPrompt(
                                       IF RepoTypeOf(payload) = None THEN "library"
                                       ELSE RepoTypeOf(payload)[1])),
                      !.user_message =
                          JsonDumps([payload EXCEPT !.retry_strict_grounding = Some(TRUE)]),
                      !.result = None,
                      !.created_at = current_time]
    IN  [task |-> retried, raised |-> FALSE,
         resp |-> Some(ReadmePollResponse(task.id, PENDING, None, None))]

\* Mutant of RetryAttempted: the flag is not read back.
RetryAttemptedForgotten(payload) == FALSE

\* payload.get("retry_strict_grounding")
RetryAttempted(payload) == payload.retry_strict_grounding = Some(TRUE)

\* get_readme_status, lines 1183-1212: a completed generation task.
GenerationCompleted(task, current_time) ==
    LET loaded == JsonLoads(task.user_message)
        payload == IF loaded.ok THEN loaded.value ELSE EmptyPayload
    IN  IF ShouldRetryStrictGrounding(ResultOrEmpty(task.result), payload.semantic_facts)
        THEN IF ~RetryAttempted(payload)
             THEN GroundingRetry(task, payload, current_time)
             ELSE FailTask(task, "README grounding validation failed")
        ELSE ReportTask(task)

\* Mutant of ReadmeStatusOf: a poll of an unfinished task refreshes its
\* timestamp.
ReadmeStatusOfTouches(task, current_time) ==
    IF task.status \in {PENDING, PROCESSING}
    THEN [task |-> [task EXCEPT !.created_at = current_time], raised |-> FALSE,
          resp |-> Some(ReadmePollResponse(task.id, task.status, None, None))]
    ELSE IF task.task_type = Some(ANALYZE_TASK_TYPE) /\ task.status = COMPLETED
    THEN AnalysisCompleted(task, current_time)
    ELSE IF task.task_type = Some(GENERATE_TASK_TYPE) /\ task.status = COMPLETED
    THEN GenerationCompleted(task, current_time)
    ELSE ReportTask(task)

\* get_readme_status on a record that exists.
ReadmeStatusOf(task, current_time) ==
    IF task.task_type = Some(ANALYZE_TASK_TYPE) /\ task.status \in {PENDING, PROCESSING}
    THEN [task |-> task, raised |-> FALSE,
          resp |-> Some(ReadmePollResponse(task.id, task.status, None, None))]
    ELSE IF task.task_type = Some(ANALYZE_TASK_TYPE) /\ task.status = COMPLETED
    THEN AnalysisCompleted(task, current_time)
    ELSE IF task.task_type = Some(GENERATE_TASK_TYPE) /\ task.status = COMPLETED
    THEN GenerationCompleted(task, current_time)
    ELSE ReportTask(task)

\* get_readme_status: [tasks: the dict afterwards, resp: the response or None,
\* raised: an exception left the handler]
GetReadmeStatus(ts, task_id, current_time) ==
    IF GetTask(ts, task_id) = None
    THEN [tasks |-> ts, resp |-> None, raised |-> FALSE]
    ELSE LET out == ReadmeStatusOf(Lookup(ts, task_id), current_time)
         IN  [tasks |-> [ts EXCEPT ![IndexOf(ts, task_id)] = out.task],
              resp |-> out.resp, raised |-> out.raised]

\* create_intent_task, the record built for a fact.
IntentTask(task_id, fact, current_time) ==
    LLMTask(task_id, "readme", Some(ANALYZE_TASK_TYPE), PENDING, IntentSystemPrompt,
            BuildIntentUserMessage(fact), None, current_time)

\* -------------------------------------------------------- commit/schemas.py
\* CommitStyle declares five fields.  The model is built from a request body
\* by keeping the declared keys and dropping every other key (pydantic's
\* default, extra = "ignore"); casing, max_length and ticket_prefix have
\* defaults, convention and language are required.
CommitStyleFields == {"convention", "language", "casing", "max_length", "ticket_prefix"}

CommitStyleDefaults ==
    [casing |-> Some("lower"), max_length |-> Some("50"), ticket_prefix |-> None]

CommitStyle(body) ==
    [f \in CommitStyleFields |->
        IF f \in DOMAIN body THEN Some(body[f]) ELSE CommitStyleDefaults[f]]

\* CommitRequest built from a request body: [diff, config: [project_descriptions, style, rules], history]
CommitRequest(body) ==
    [diff |-> body.diff,
     config |-> [project_descriptions |-> body.config.project_descriptions,
                 style |-> CommitStyle(body.config.style),
                 rules |-> body.config.rules],
     history |-> body.history]

\* The request bodies clients post: the style with and without a useEmojis key.
CommitBody(style) ==
    [diff |-> "diff --git a/main.py b/main.py",
     config |-> [project_descriptions |-> "backend", style |-> style, rules |-> <<>>],
     history |-> <<>>]

CommitBodies ==
    { CommitBody([convention |-> "conventional", language |-> "en", useEmojis |-> "true"]),
      CommitBody([convention |-> "gitmoji", language |-> "kr"]) }

\* ------------------------------------------------------- commit/services.py
\* getattr on a pydantic model: a name the model does not declare raises
\* AttributeError.
HasAttr(model, name) == name \in DOMAIN model

\* queue_commit_generation: [tasks: the dict afterwards, ret: the task id or
\* None, raised: an exception left the function].  Line 27 reads
\* request.config.style.useEmojis before the task is built.
QueueCommitGeneration(ts, request, task_id, current_time) ==
    IF ~HasAttr(request.config.style, "useEmojis")
    THEN [tasks |-> ts, ret |-> None, raised |-> TRUE]
    ELSE LET task == LLMTask(task_id, "commit", None, PENDING,
                             Some(<<"commit", request.config.style.convention>>),
                             PlainString(request.diff), None, current_time)
         IN  [tasks |-> AddTask(ts, task, current_time), ret |-> Some(task_id),
              raised |-> FALSE]

\* get_commit_status: CommitPollResponse or None.
GetCommitStatus(ts, task_id) ==
    IF GetTask(ts, task_id) = None THEN None
    ELSE LET task == Lookup(ts, task_id)
         IN  Some([task_id |-> task.id, status |-> task.status,
                   commit_message |-> task.result, error |-> None])

\* ------------------------------------------------------------ the event loop
\* The handlers are coroutines of one asyncio event loop.  A coroutine that has
\* the loop runs statement after statement until it returns or reaches an
\* await that suspends it; only then does the loop run another one.
Coroutines == 1..MaxCoroutines

\* A coroutine slot with no request in it.  op: the function; pc: the statement
\* it is at; id, result: its arguments; keys: keys_to_delete; plan: the record
\* it works towards; before: the dict when it began to run.
Idle ==
    [op |-> "none", pc |-> "idle", id |-> 0, result |-> None, keys |-> {},
     plan |-> None, before |-> <<>>]

\* The statement a function begins with.
FirstPc(op) ==
    CASE op = "add_task" -> "gc_scan"
      [] op = "get_task" -> "read"
      [] op = "pop_pending_task" -> "scan"
      [] op = "complete_task" -> "check"
      [] op = "get_readme_status" -> "fetch"

\* Suspension points as if every statement of the queue, or of the poll, were
\* followed by an await that yields to the loop.
SuspendsInQueue(op, pc) == op \in {"add_task", "pop_pending_task", "complete_task"}
SuspendsInPoll(op, pc) == op = "get_readme_status"

\* Whether the loop may run another coroutine before this one executes the
\* statement pc.  add_task, get_task, pop_pending_task and complete_task
\* contain no await; get_readme_status awaits get_task only, which returns
\* without suspending.
Suspends(op, pc) == FALSE

\* Each handler is one action.  `last` keeps the response of the handler that
\* last wrote to the queue; a handler that leaves the queue as it was (a read,
\* a 404, a rejected request) leaves `last` alone, and what it answers is the
\* value of its operator in the state it runs in.  `burst` keeps what the
\* pop_task calls answered that ran back to back, from the number of pending
\* tasks they started with (0: 404, nothing pending).

Reply(op, code, task_id, status, content, error, collected) ==
    [op |-> op, code |-> code, task_id |-> task_id, status |-> status,
     content |-> content, error |-> error, collected |-> collected]

Recorded(ts2, reply) == IF ts2 = tasks THEN last ELSE reply

NoBurst == [pending |-> 0, got |-> <<>>]
BurstAfter(ts2) == IF ts2 = tasks THEN burst ELSE NoBurst

PendingCount(ts) == Cardinality({i \in DOMAIN ts : ts[i].status = PENDING})

\* `track`, per id: "idle" until a worker pops the task, "claimed" once one has,
\* "completed" when complete_task follows the pop and "reset" when
\* get_readme_status then puts the task back to pending.  A pop is "claimed
\* again" when it follows such a reset, and "reclaimed" when it does not.
TrackPop(old, task_id, ts, ret) ==
    IF ret = None \/ ret[1].id # task_id THEN old
    ELSE IF Lookup(ts, task_id).status = PENDING /\ old = "idle" THEN "claimed"
    ELSE IF Lookup(ts, task_id).status = PENDING /\ old = "reset" THEN "claimed again"
    ELSE "reclaimed"

TrackComplete(old, task_id, ret) ==
    IF ret # None /\ ret[1].id = task_id /\ old \in {"claimed", "claimed again"}
    THEN "completed" ELSE old

TrackPoll(old, task_id, ts, ts2) ==
    IF /\ task_id \in Ids(ts) /\ task_id \in Ids(ts2)
       /\ Lookup(ts, task_id).status # PENDING /\ Lookup(ts2, task_id).status = PENDING
       /\ old = "completed"
    THEN "reset" ELSE old

\* Which reset, if any, the step from ts to ts2 made on the record task_id.
ResetKind(ts, ts2, task_id) ==
    IF task_id \notin Ids(ts) \/ task_id \notin Ids(ts2) THEN "none"
    ELSE LET before == Lookup(ts, task_id)
             after == Lookup(ts2, task_id)
         IN  IF before.status = COMPLETED /\ after.status = PENDING
             THEN IF before.task_type = Some(ANALYZE_TASK_TYPE) THEN "rewrite" ELSE "retry"
             ELSE "none"

\* The step from ts to ts2 failed the completed analysis task task_id.
AnalysisRejected(ts, ts2, task_id) ==
    /\ task_id \in Ids(ts) /\ task_id \in Ids(ts2)
    /\ Lookup(ts, task_id).task_type = Some(ANALYZE_TASK_TYPE)
    /\ Lookup(ts, task_id).status = COMPLETED
    /\ Lookup(ts2, task_id).status = FAILED

Init ==
    /\ tasks = <<>>
    /\ now = 0
    /\ issued = 0
    /\ last = Reply("start", 0, None, None, None, None, {})
    /\ track = <<>>
    /\ resets = <<>>
    /\ burst = NoBurst
    /\ held = <<>>
    /\ rejected = <<>>
    /\ told = <<>>
    /\ loop = [running |-> 0, co |-> [c \in Coroutines |-> Idle]]

\* readme/router.py generate_readme_endpoint (cap: the uuids the model issues)
\* generate_readme_endpoint: [tasks: the dict afterwards, code: the HTTP
\* status, ret: the task id answered or None].  A body that is no FactJson is
\* answered with 422 by the framework; a fact that fails validate_fact
\* or select_readme_system_prompt is answered with 400; a synchronous request
\* is answered with the content generate_readme renders, without the queue.
GenerateReadmeEndpoint(ts, fact, async_mode, task_id, current_time) ==
    IF ~RepositoryInfo(fact)
    THEN [tasks |-> ts, code |-> 422, ret |-> None]
    ELSE IF ValidateFact(fact) # {} \/ SelectReadmeSystemPrompt(fact.repository.repo_type) = None
    THEN [tasks |-> ts, code |-> 400, ret |-> None]
    ELSE IF async_mode
    THEN [tasks |-> AddTask(ts, IntentTask(task_id, fact, current_time), current_time),
          code |-> 200, ret |-> Some(task_id)]
    ELSE [tasks |-> ts, code |-> 200, ret |-> None]

GenerateReadme(fact, async_mode, cap) ==
    LET task_id == issued + 1
        out == GenerateReadmeEndpoint(tasks, fact, async_mode, task_id, now)
    IN  IF out.ret = None
        THEN /\ out.tasks = tasks
             /\ UNCHANGED vars
        ELSE /\ issued < cap
             /\ tasks' = out.tasks
             /\ issued' = task_id
             /\ last' = Reply("generate_readme", 200, Some(task_id), None, None, None,
                              KeysToDelete(tasks, now))
             /\ track' = Append(track, "idle")
             /\ resets' = Append(resets, [rewrite |-> 0, retry |-> 0])
             /\ burst' = NoBurst
             /\ held' = Append(held, {})
             /\ rejected' = Append(rejected, FALSE)
             /\ told' = Append(told, None)
             /\ UNCHANGED <<now, loop>>

\* commit/router.py generate_commit: CommitTaskResponse, or the 500 of an
\* exception that leaves the handler.
GenerateCommitResponse(ts, body, task_id, current_time) ==
    LET out == QueueCommitGeneration(ts, CommitRequest(body), task_id, current_time)
    IN  IF out.raised
        THEN Reply("generate_commit", 500, None, None, None, Some("AttributeError"), {})
        ELSE Reply("generate_commit", 200, out.ret, Some(PENDING), None, None,
                   KeysToDelete(ts, current_time))

\* commit/router.py generate_commit (cap: the uuids the model issues).
\* queue_commit_generation reads request.config.style.useEmojis, a field
\* CommitStyle does not declare, so the AttributeError leaves the handler
\* before any task is built.
GenerateCommit(cap) ==
    \E body \in CommitBodies :
        LET task_id == issued + 1
            out == QueueCommitGeneration(tasks, CommitRequest(body), task_id, now)
        IN  IF out.raised
            THEN UNCHANGED vars
            ELSE /\ issued < cap
                 /\ tasks' = out.tasks
                 /\ issued' = task_id
                 /\ last' = GenerateCommitResponse(tasks, body, task_id, now)
                 /\ track' = Append(track, "idle")
                 /\ resets' = Append(resets, [rewrite |-> 0, retry |-> 0])
                 /\ burst' = NoBurst
                 /\ held' = Append(held, {})
                 /\ rejected' = Append(rejected, FALSE)
                 /\ told' = Append(told, None)
                 /\ UNCHANGED <<now, loop>>

\* infrastructure/router.py pop_task: 404 when nothing is pending.
PopTaskResponse(ret) ==
    IF ret = None
    THEN Reply("pop_task", 404, None, None, None, Some("No pending tasks"), {})
    ELSE Reply("pop_task", 200, Some(ret[1].id), Some(ret[1].status), ret[1].result, None, {})

\* The worker that calls is whoever sent the request: the handler takes no
\* argument and the queue keeps no record of the caller.
PopTaskBy(worker) ==
    LET out == PopPendingTask(tasks)
        n0 == IF burst.got = <<>> THEN PendingCount(tasks) ELSE burst.pending
    IN  /\ tasks' = out.tasks
        /\ last' = IF out.ret = None THEN last ELSE PopTaskResponse(out.ret)
        /\ track' = [i \in DOMAIN track |-> TrackPop(track[i], i, tasks, out.ret)]
        /\ burst' = IF Len(burst.got) < n0
                    THEN [pending |-> n0,
                          got |-> Append(burst.got, IF out.ret = None THEN 0 ELSE out.ret[1].id)]
                    ELSE burst
        /\ held' = [i \in DOMAIN held |->
                       IF out.ret # None /\ out.ret[1].id = i
                       THEN held[i] \cup {worker} ELSE held[i]]
        /\ UNCHANGED <<now, issued, resets, rejected, told, loop>>

PopTask == PopTaskBy(1)

\* infrastructure/router.py complete_task: result = payload.get("result")
CompleteTaskResponse(task_id, ret) ==
    IF ret = None
    THEN Reply("complete_task", 404, Some(task_id), None, None, Some("Task not found"), {})
    ELSE Reply("complete_task", 200, Some(task_id), Some("ok"), None, None, {})

CompleteTaskBy(worker, task_id, result) ==
    LET out == CompleteTask(tasks, task_id, result, now)
    IN  /\ tasks' = out.tasks
        /\ last' = IF out.ret = None THEN last ELSE CompleteTaskResponse(task_id, out.ret)
        /\ track' = [i \in DOMAIN track |-> TrackComplete(track[i], i, out.ret)]
        /\ burst' = IF out.ret = None THEN burst ELSE NoBurst
        /\ held' = IF out.ret = None THEN held
                    ELSE [held EXCEPT ![task_id] = @ \ {worker}]
        /\ UNCHANGED <<now, issued, resets, rejected, told, loop>>

CompleteTaskEndpoint(task_id, result) == CompleteTaskBy(1, task_id, result)

\* infrastructure/router.py get_task_status: the record itself, or 404.
GetTaskStatusResponse(ts, task_id) ==
    LET task == GetTask(ts, task_id)
    IN  IF task = None
        THEN Reply("get_task_status", 404, Some(task_id), None, None,
                   Some("Task not found"), {})
        ELSE Reply("get_task_status", 200, Some(task_id), Some(task[1].status),
                   task[1].result, None, {})

\* get_task_status that hands a finished record out once and then drops it.
GetTaskStatusDeliversOnce(ts, task_id) ==
    [tasks |-> IF GetTask(ts, task_id) # None /\ Lookup(ts, task_id).status = COMPLETED
               THEN SelectSeq(ts, LAMBDA t : t.id # task_id)
               ELSE ts,
     resp |-> GetTaskStatusResponse(ts, task_id)]

\* get_task_status with the store it leaves: get_task is a dict lookup.
GetTaskStatusEndpoint(ts, task_id) ==
    [tasks |-> ts, resp |-> GetTaskStatusResponse(ts, task_id)]

GetTaskStatus(task_id) ==
    /\ GetTaskStatusEndpoint(tasks, task_id).resp.code \in {200, 404}
    /\ tasks' = GetTaskStatusEndpoint(tasks, task_id).tasks
    /\ UNCHANGED <<now, issued, last, track, resets, burst, held, rejected, told, loop>>

\* commit/router.py get_commit_result
GetCommitResultResponse(ts, task_id) ==
    LET resp == GetCommitStatus(ts, task_id)
    IN  IF resp = None
        THEN Reply("get_commit_result", 404, Some(task_id), None, None,
                   Some("Task not found"), {})
        ELSE Reply("get_commit_result", 200, Some(task_id), Some(resp[1].status),
                   resp[1].commit_message, resp[1].error, {})

\* get_commit_result with the store it leaves: get_commit_status reads the
\* record and assigns nothing.
GetCommitResultEndpoint(ts, task_id) ==
    [tasks |-> ts, resp |-> GetCommitResultResponse(ts, task_id)]

GetCommitResult(task_id) ==
    /\ GetCommitResultEndpoint(tasks, task_id).resp.code \in {200, 404}
    /\ tasks' = GetCommitResultEndpoint(tasks, task_id).tasks
    /\ UNCHANGED <<now, issued, last, track, resets, burst, held, rejected, told, loop>>

\* readme/router.py get_readme_result
GetReadmeResultResponse(ts, task_id, current_time) ==
    LET out == GetReadmeStatus(ts, task_id, current_time)
    IN  IF out.raised
        THEN Reply("get_readme_result", 500, Some(task_id), None, None, Some("ValueError"), {})
        ELSE IF out.resp = None
        THEN Reply("get_readme_result", 404, Some(task_id), None, None,
                   Some("Task not found"), {})
        ELSE Reply("get_readme_result", 200, Some(task_id), Some(out.resp[1].status),
                   out.resp[1].content, out.resp[1].error, {})

GetReadmeResultStep(task_id) ==
    LET out == GetReadmeStatus(tasks, task_id, now)
        kind == ResetKind(tasks, out.tasks, task_id)
    IN  /\ tasks' = out.tasks
        /\ last' = Recorded(out.tasks, GetReadmeResultResponse(tasks, task_id, now))
        /\ track' = [i \in DOMAIN track |-> TrackPoll(track[i], i, tasks, out.tasks)]
        /\ resets' = IF kind = "rewrite"
                     THEN [resets EXCEPT ![task_id].rewrite = @ + 1]
                     ELSE IF kind = "retry"
                     THEN [resets EXCEPT ![task_id].retry = @ + 1]
                     ELSE resets
        /\ burst' = BurstAfter(out.tasks)
        /\ UNCHANGED <<now, issued, held, loop>>

GetReadmeResult(task_id) ==
    /\ GetReadmeResultStep(task_id)
    /\ UNCHANGED <<rejected, told>>

\* The same handler, with the history of failed analyses kept.
GetReadmeResultNoted(task_id) ==
    /\ GetReadmeResultStep(task_id)
    /\ rejected' = IF AnalysisRejected(tasks, GetReadmeStatus(tasks, task_id, now).tasks, task_id)
                    THEN [rejected EXCEPT ![task_id] = TRUE]
                    ELSE rejected
    /\ told' = LET resp == GetReadmeResultResponse(tasks, task_id, now)
               IN  IF resp.code = 200 /\ resp.status \in {Some(COMPLETED), Some(FAILED)}
                   THEN [told EXCEPT ![task_id] = resp.status]
                   ELSE told

\* time.time() moves on between two handlers.
TickSteps == {TASK_TTL_SECONDS, TASK_TTL_SECONDS + 1}

Tick(d) ==
    /\ now + d <= MaxNow
    /\ now' = now + d
    /\ UNCHANGED <<tasks, issued, last, track, resets, burst, held, rejected, told, loop>>

\* ------------------------------------------------------------ specifications
\* Spec: the queue under load -- MaxTasks requests of one kind, workers that
\* answer with an analysis, an ungrounded readme or a grounded one, all within
\* one tick of the clock.
QueueFacts ==
    { Fact(Some("app"), "library",
           Some(SemanticFacts(Some(PR), Some(PRB), None, Some("high")))),
      Fact(None, "library", None) }

QueueResults ==
    { Some(Text("intent", {FILLER})),
      Some(Text("plain", {FILLER, PR})),
      Some(Text("plain", {FILLER, PR, PRB, DEFAULT_NON_GOAL})) }

Next ==
    \/ \E fact \in QueueFacts, async_mode \in BOOLEAN : GenerateReadme(fact, async_mode, MaxTasks)
    \/ GenerateCommit(MaxTasks)
    \/ PopTask
    \/ \E task_id \in 1..MaxTasks, result \in QueueResults :
           CompleteTaskEndpoint(task_id, result)
    \/ \E task_id \in 1..MaxTasks : GetTaskStatus(task_id)
    \/ \E task_id \in 1..MaxTasks : GetCommitResult(task_id)
    \/ \E task_id \in 1..MaxTasks : GetReadmeResult(task_id)

Spec == Init /\ [][Next]_vars

\* GcSpec: the queue as time passes -- MaxGcTasks requests without semantic
\* facts, workers that answer with an analysis or with plain text.
GcFacts ==
    { Fact(Some("app"), "research", None),
      Fact(None, "library", None),
      Fact(Some(" "), "service", None),
      Fact(Some("app"), "mobile", None),
      Fact(Some("app"), "", None) }

GcResults ==
    { Some(Text("intent", {FILLER})),
      Some(Text("plain", {FILLER})) }

GcNext ==
    \/ \E fact \in GcFacts, async_mode \in BOOLEAN : GenerateReadme(fact, async_mode, MaxGcTasks)
    \/ GenerateCommit(MaxGcTasks)
    \/ PopTask
    \/ \E task_id \in 1..MaxGcTasks, result \in GcResults :
           CompleteTaskEndpoint(task_id, result)
    \/ \E task_id \in 1..MaxGcTasks : GetTaskStatus(task_id)
    \/ \E task_id \in 1..MaxGcTasks : GetCommitResult(task_id)
    \/ \E task_id \in 1..MaxGcTasks : GetReadmeResult(task_id)
    \/ \E d \in TickSteps : Tick(d)

GcSpec == Init /\ [][GcNext]_vars

\* OrchSpec: MaxOrchTasks requests of every kind, and every kind of worker
\* answer.
OrchNext ==
    \/ \E fact \in Facts, async_mode \in BOOLEAN : GenerateReadme(fact, async_mode, MaxOrchTasks)
    \/ GenerateCommit(MaxOrchTasks)
    \/ PopTask
    \/ \E task_id \in 1..MaxOrchTasks, result \in WorkerResults :
           CompleteTaskEndpoint(task_id, result)
    \/ \E task_id \in 1..MaxOrchTasks : GetTaskStatus(task_id)
    \/ \E task_id \in 1..MaxOrchTasks : GetCommitResult(task_id)
    \/ \E task_id \in 1..MaxOrchTasks : GetReadmeResult(task_id)
    \/ \E d \in TickSteps : Tick(d)

OrchSpec == Init /\ [][OrchNext]_vars

\* HoldSpec: MaxWorkers workers share the worker endpoints -- each pop_task
\* and complete_task call comes from one of them.
Workers == 1..MaxWorkers

HoldNext ==
    \/ \E fact \in GcFacts, async_mode \in BOOLEAN : GenerateReadme(fact, async_mode, MaxHoldTasks)
    \/ GenerateCommit(MaxHoldTasks)
    \/ \E worker \in Workers : PopTaskBy(worker)
    \/ \E worker \in Workers, task_id \in 1..MaxHoldTasks, result \in GcResults :
           CompleteTaskBy(worker, task_id, result)
    \/ \E task_id \in 1..MaxHoldTasks : GetTaskStatus(task_id)
    \/ \E task_id \in 1..MaxHoldTasks : GetCommitResult(task_id)
    \/ \E task_id \in 1..MaxHoldTasks : GetReadmeResultNoted(task_id)

HoldSpec == Init /\ [][HoldNext]_vars

\* LoopSpec: the store functions and get_readme_status statement by statement,
\* as coroutines of the event loop.  The loop takes up a request when it is
\* free, and the coroutine it starts keeps the loop up to its next suspension
\* point.  The clock moves while the loop is free.
LoopFact ==
    Fact(Some("app"), "library",
         Some(SemanticFacts(Some(PR), Some(PRB), None, Some("high"))))

LoopResults ==
    { Some(Text("intent", {FILLER})),
      Some(Text("plain", {FILLER, PR})) }

Me(c) == loop.co[c]

\* The loop is free or already with c, and c has a statement to execute.
Runs(c) == loop.running \in {0, c} /\ Me(c).pc # "idle"

\* c moves on to the statement rec.pc, or returns.
Goto(c, rec) ==
    loop' = [running |-> IF Suspends(rec.op, rec.pc) THEN 0 ELSE c,
             co |-> [loop.co EXCEPT ![c] = rec]]

Return(c) == loop' = [running |-> 0, co |-> [loop.co EXCEPT ![c] = Idle]]

\* Assignment to a field of the record id; the record may have left the dict.
Put(ts, id, rec) ==
    IF id \in Ids(ts) THEN [ts EXCEPT ![IndexOf(ts, id)] = rec] ELSE ts

\* The loop starts create_intent_task: a uuid is drawn.
CallAddTask(c) ==
    /\ loop.running = 0
    /\ Me(c) = Idle
    /\ issued < MaxLoopTasks
    /\ issued' = issued + 1
    /\ Goto(c, [Idle EXCEPT !.op = "add_task", !.pc = FirstPc("add_task"), !.id = issued + 1])
    /\ UNCHANGED <<tasks, now, last, track, resets, burst, held, rejected, told>>

\* The loop starts get_task, pop_pending_task, complete_task or get_readme_status.
Call(c, op, id, result) ==
    /\ loop.running = 0
    /\ Me(c) = Idle
    /\ Goto(c, [Idle EXCEPT !.op = op, !.pc = FirstPc(op), !.id = id, !.result = result])
    /\ UNCHANGED <<tasks, now, issued, last, track, resets, burst, held, rejected, told>>

\* queue.py 46-54: the scan of _cleanup_old_tasks.
AddTaskScan(c) ==
    /\ Runs(c)
    /\ Me(c).pc = "gc_scan"
    /\ Goto(c, [Me(c) EXCEPT !.pc = "gc_delete",
                             !.keys = KeysToDelete(tasks, now),
                             !.plan = Some(IntentTask(Me(c).id, LoopFact, now)),
                             !.before = tasks])
    /\ UNCHANGED <<tasks, now, issued, last, track, resets, burst, held, rejected, told>>

\* queue.py 56-58: the deletions.
AddTaskDelete(c) ==
    /\ Runs(c)
    /\ Me(c).pc = "gc_delete"
    /\ tasks' = SelectSeq(tasks, LAMBDA t : t.id \notin Me(c).keys)
    /\ Goto(c, [Me(c) EXCEPT !.pc = "store"])
    /\ UNCHANGED <<now, issued, last, track, resets, burst, held, rejected, told>>

\* queue.py 17-19
AddTaskStore(c) ==
    /\ Runs(c)
    /\ Me(c).pc = "store"
    /\ tasks' = DictSet(tasks, Me(c).plan[1])
    /\ Return(c)
    /\ UNCHANGED <<now, issued, last, track, resets, burst, held, rejected, told>>

\* queue.py 22
GetTaskRead(c) ==
    /\ Runs(c)
    /\ Me(c).pc = "read"
    /\ Return(c)
    /\ UNCHANGED <<tasks, now, issued, last, track, resets, burst, held, rejected, told>>

\* queue.py 25-26: the loop up to the first pending record.
PopScan(c) ==
    /\ Runs(c)
    /\ Me(c).pc = "scan"
    /\ IF FirstPending(tasks) = 0
       THEN Return(c)
       ELSE Goto(c, [Me(c) EXCEPT !.pc = "mark", !.id = tasks[FirstPending(tasks)].id,
                                  !.before = tasks])
    /\ UNCHANGED <<tasks, now, issued, last, track, resets, burst, held, rejected, told>>

\* queue.py 27-28
PopMark(c) ==
    /\ Runs(c)
    /\ Me(c).pc = "mark"
    /\ tasks' = IF Me(c).id \in Ids(tasks)
                THEN Put(tasks, Me(c).id, [Lookup(tasks, Me(c).id) EXCEPT !.status = PROCESSING])
                ELSE tasks
    /\ Return(c)
    /\ UNCHANGED <<now, issued, last, track, resets, burst, held, rejected, told>>

\* queue.py 32
CompleteCheck(c) ==
    /\ Runs(c)
    /\ Me(c).pc = "check"
    /\ IF Me(c).id \in Ids(tasks)
       THEN Goto(c, [Me(c) EXCEPT !.pc = "set_status", !.before = tasks])
       ELSE Return(c)
    /\ UNCHANGED <<tasks, now, issued, last, track, resets, burst, held, rejected, told>>

\* queue.py 33; self.tasks[task_id] raises KeyError when the key is gone.
CompleteSetStatus(c) ==
    /\ Runs(c)
    /\ Me(c).pc = "set_status"
    /\ IF Me(c).id \in Ids(tasks)
       THEN /\ tasks' = Put(tasks, Me(c).id, [Lookup(tasks, Me(c).id) EXCEPT !.status = COMPLETED])
            /\ Goto(c, [Me(c) EXCEPT !.pc = "set_result"])
       ELSE /\ tasks' = tasks
            /\ Return(c)
    /\ UNCHANGED <<now, issued, last, track, resets, burst, held, rejected, told>>

\* queue.py 34
CompleteSetResult(c) ==
    /\ Runs(c)
    /\ Me(c).pc = "set_result"
    /\ IF Me(c).id \in Ids(tasks)
       THEN /\ tasks' = Put(tasks, Me(c).id, [Lookup(tasks, Me(c).id) EXCEPT !.result = Me(c).result])
            /\ Goto(c, [Me(c) EXCEPT !.pc = "set_stamp"])
       ELSE /\ tasks' = tasks
            /\ Return(c)
    /\ UNCHANGED <<now, issued, last, track, resets, burst, held, rejected, told>>

\* queue.py 36-38
CompleteSetStamp(c) ==
    /\ Runs(c)
    /\ Me(c).pc = "set_stamp"
    /\ tasks' = IF Me(c).id \in Ids(tasks)
                THEN Put(tasks, Me(c).id, [Lookup(tasks, Me(c).id) EXCEPT !.created_at = now])
                ELSE tasks
    /\ Return(c)
    /\ UNCHANGED <<now, issued, last, track, resets, burst, held, rejected, told>>

\* services.py 1077-1079: task = await task_queue.get_task(task_id)
PollFetch(c) ==
    /\ Runs(c)
    /\ Me(c).pc = "fetch"
    /\ IF GetTask(tasks, Me(c).id) = None
       THEN Return(c)
       ELSE Goto(c, [Me(c) EXCEPT !.pc = "inspect", !.before = tasks])
    /\ UNCHANGED <<tasks, now, issued, last, track, resets, burst, held, rejected, told>>

\* services.py 1081-1132 and 1183-1190: the tests on the record and on its
\* result, up to the first assignment.  plan: the record the branch taken ends with.
PollInspect(c) ==
    /\ Runs(c)
    /\ Me(c).pc = "inspect"
    /\ IF Me(c).id \notin Ids(tasks)
       THEN Return(c)
       ELSE LET record == Lookup(tasks, Me(c).id)
                out == ReadmeStatusOf(record, now)
            IN  IF out.task = record
                THEN Return(c)
                ELSE Goto(c, [Me(c) EXCEPT !.pc = "begin", !.plan = Some(out.task)])
    /\ UNCHANGED <<tasks, now, issued, last, track, resets, burst, held, rejected, told>>

\* services.py 1133-1134 (task_type, status), 1192 (status), and the
\* assignments of FAILED, after which the function returns.
PollBegin(c) ==
    /\ Runs(c)
    /\ Me(c).pc = "begin"
    /\ tasks' = IF Me(c).id \in Ids(tasks)
                THEN Put(tasks, Me(c).id,
                         [Lookup(tasks, Me(c).id) EXCEPT !.task_type = Me(c).plan[1].task_type,
                                                         !.status = Me(c).plan[1].status])
                ELSE tasks
    /\ IF Me(c).plan[1].status = FAILED
       THEN Return(c)
       ELSE Goto(c, [Me(c) EXCEPT !.pc = "finish"])
    /\ UNCHANGED <<now, issued, last, track, resets, burst, held, rejected, told>>

\* services.py 1173-1176 and 1193-1200: system_instruction, user_message,
\* result and created_at.
PollFinish(c) ==
    /\ Runs(c)
    /\ Me(c).pc = "finish"
    /\ tasks' = IF Me(c).id \in Ids(tasks)
                THEN Put(tasks, Me(c).id,
                         [Lookup(tasks, Me(c).id) EXCEPT
                             !.system_instruction = Me(c).plan[1].system_instruction,
                             !.user_message = Me(c).plan[1].user_message,
                             !.result = Me(c).plan[1].result,
                             !.created_at = now])
                ELSE tasks
    /\ Return(c)
    /\ UNCHANGED <<now, issued, last, track, resets, burst, held, rejected, told>>

LoopTick(d) ==
    /\ loop.running = 0
    /\ Tick(d)

LoopNext ==
    \/ \E c \in Coroutines : CallAddTask(c)
    \/ \E c \in Coroutines, id \in 1..MaxLoopTasks : Call(c, "get_task", id, None)
    \/ \E c \in Coroutines : Call(c, "pop_pending_task", 0, None)
    \/ \E c \in Coroutines, id \in 1..MaxLoopTasks, result \in LoopResults :
           Call(c, "complete_task", id, result)
    \/ \E c \in Coroutines, id \in 1..MaxLoopTasks : Call(c, "get_readme_status", id, None)
    \/ \E c \in Coroutines : AddTaskScan(c)
    \/ \E c \in Coroutines : AddTaskDelete(c)
    \/ \E c \in Coroutines : AddTaskStore(c)
    \/ \E c \in Coroutines : GetTaskRead(c)
    \/ \E c \in Coroutines : PopScan(c)
    \/ \E c \in Coroutines : PopMark(c)
    \/ \E c \in Coroutines : CompleteCheck(c)
    \/ \E c \in Coroutines : CompleteSetStatus(c)
    \/ \E c \in Coroutines : CompleteSetResult(c)
    \/ \E c \in Coroutines : CompleteSetStamp(c)
    \/ \E c \in Coroutines : PollFetch(c)
    \/ \E c \in Coroutines : PollInspect(c)
    \/ \E c \in Coroutines : PollBegin(c)
    \/ \E c \in Coroutines : PollFinish(c)
    \/ LoopTick(TASK_TTL_SECONDS + 1)

LoopSpec == Init /\ [][LoopNext]_vars

\* LiveSpec: the service with a worker and a client that keep going.  The
\* worker polls /queue/pop for ever and posts one result for each task it was
\* handed; the client polls each of its readme tasks for ever.  The fairness
\* stated is weaker than that: as long as a pop, a report or a poll would
\* change something, one of them happens.
LiveResults ==
    { Some(Text("intent", {FILLER})),
      Some(Text("plain", {FILLER, PR, PRB, DEFAULT_NON_GOAL})) }

LiveComplete(task_id, result) ==
    /\ task_id \in DOMAIN held
    /\ 1 \in held[task_id]
    /\ CompleteTaskBy(1, task_id, result)

LiveNext ==
    \/ \E fact \in QueueFacts, async_mode \in BOOLEAN :
           GenerateReadme(fact, async_mode, MaxLiveTasks)
    \/ PopTask
    \/ \E task_id \in 1..MaxLiveTasks, result \in LiveResults : LiveComplete(task_id, result)
    \/ \E task_id \in 1..MaxLiveTasks : GetReadmeResultNoted(task_id)

LiveProgress ==
    \/ PopTask
    \/ \E task_id \in 1..MaxLiveTasks, result \in LiveResults : LiveComplete(task_id, result)
    \/ \E task_id \in 1..MaxLiveTasks : GetReadmeResultNoted(task_id)

LiveSpec == Init /\ [][LiveNext]_vars /\ WF_vars(LiveProgress)

\* ClaimSpec: the same service where only the worker's polling of /queue/pop
\* is sure to go on; reports and client polls may stop at any time.
ClaimSpec == Init /\ [][LiveNext]_vars /\ WF_vars(PopTask)

\* StampSpec: the same requests, worker and client while time passes, so that
\* a record put back to pending carries a later created_at than one enqueued
\* after it.
StampNext ==
    \/ LiveNext
    \/ \E d \in TickSteps : Tick(d)

StampSpec == Init /\ [][StampNext]_vars

\* -------------------------------------------------------------------- claims
StatusOf(ts, task_id) == Lookup(ts, task_id).status

\* C1: pop_task never returns a task that is processing, and it returns a task
\* it has returned before only after that task was completed and
\* get_readme_status reset it to pending.
C1_ClaimedOncePerAttempt ==
    \A i \in DOMAIN track : track[i] # "reclaimed"

\* A task popped a second time, after its first attempt was completed and reset.
C1_Witness ==
    \E i \in DOMAIN track :
        /\ track[i] = "claimed again"
        /\ i \in Ids(tasks)
        /\ StatusOf(tasks, i) = PROCESSING
        /\ last.op = "pop_task" /\ last.task_id = Some(i)

\* C2: N pop_task calls in a row against N pending tasks all return a task, no
\* task twice, and leave all N processing.
C2_BurstOfClaims ==
    LET got == burst.got
    IN  /\ \A k \in DOMAIN got : got[k] # 0
        /\ \A j, k \in DOMAIN got : j # k => got[j] # got[k]
        /\ (burst.pending > 0 /\ Len(got) = burst.pending) =>
               /\ \A k \in DOMAIN got : got[k] \in Ids(tasks) /\ StatusOf(tasks, got[k]) = PROCESSING
               /\ PendingCount(tasks) = 0

\* Two or more pending tasks, all claimed by as many calls in a row.
C2_Witness ==
    /\ burst.pending >= 2
    /\ Len(burst.got) = burst.pending
    /\ last.op = "pop_task"

\* C4: with a task pending, pop_task returns the pending task that comes first
\* in insertion order, as processing, and changes nothing but that task's status.
C4_PopStep ==
    /\ last' # last
    /\ last'.op = "pop_task"

C4_OldestPendingFirst ==
    /\ [][C4_PopStep =>
            LET i == IndexOf(tasks, last'.task_id[1])
            IN  /\ last'.task_id[1] \in Ids(tasks)
                /\ tasks[i].status = PENDING
                /\ \A j \in 1..(i - 1) : tasks[j].status # PENDING
                /\ tasks' = [tasks EXCEPT ![i].status = PROCESSING]
                /\ last'.status = Some(PROCESSING)
                /\ <<now', issued', resets'>> = <<now, issued, resets>>]_vars
    /\ [](PendingCount(tasks) > 0 => PopPendingTask(tasks).ret # None)

\* Task 1, reset to pending by the orchestrator, is handed out although task 2 has been pending for longer.
C4_Witness ==
    /\ last.op = "pop_task"
    /\ last.task_id = Some(1)
    /\ Len(resets) >= 2
    /\ resets[1].rewrite = 1
    /\ 2 \in Ids(tasks)
    /\ StatusOf(tasks, 2) = PENDING

\* C3 (as claimed): a task's status only steps pending -> processing ->
\* completed, completed -> failed, or completed -> pending by one of the two
\* resets, each reset at most once; nothing else changes a status.
C3_LegalTransitions ==
    { <<PENDING, PROCESSING>>, <<PROCESSING, COMPLETED>>, <<PROCESSING, FAILED>>,
      <<COMPLETED, FAILED>>, <<COMPLETED, PENDING>> }

C3_OnlyForwardOrReset ==
    /\ [][\A task_id \in Ids(tasks) \cap Ids(tasks') :
            \/ Lookup(tasks', task_id) = Lookup(tasks, task_id)
            \/ <<StatusOf(tasks, task_id), StatusOf(tasks', task_id)>> \in C3_LegalTransitions]_vars
    /\ [](\A i \in DOMAIN resets : resets[i].rewrite <= 1 /\ resets[i].retry <= 1)

\* The stored payload of a record says a stricter attempt was already made.
RetryBit(task) ==
    LET loaded == JsonLoads(task.user_message)
    IN  loaded.ok /\ RetryAttempted(loaded.value)

\* C5: polling an analysis task that a worker popped and completed with a
\* well-formed analysis rewrites the record in place -- pending, generation
\* phase, no result, timestamp now -- and answers pending without content.
C5_PhaseRewriteOnPoll ==
    \A i \in DOMAIN tasks :
        LET task == tasks[i]
            out == GetReadmeStatus(tasks, task.id, now)
            after == out.tasks[i]
            resp == GetReadmeResultResponse(tasks, task.id, now)
        IN  (/\ task.task_type = Some(ANALYZE_TASK_TYPE)
             /\ task.status = COMPLETED
             /\ track[task.id] = "completed"
             /\ ValidatesAsIntent(task.result))
            => /\ Len(out.tasks) = Len(tasks)
               /\ \A j \in DOMAIN tasks : j # i => out.tasks[j] = tasks[j]
               /\ after.id = task.id
               /\ after.domain = task.domain
               /\ after.status = PENDING
               /\ after.task_type = Some(GENERATE_TASK_TYPE)
               /\ after.result = None
               /\ after.created_at = now
               /\ resp.code = 200
               /\ resp.status = Some(PENDING)
               /\ resp.content = None
               /\ resp.error = None

\* The poll has run: the record is a pending generation task stamped later than
\* its creation, and the client was told "pending".
C5_Witness ==
    /\ last.op = "get_readme_result"
    /\ last.status = Some(PENDING)
    /\ last.content = None
    /\ \E i \in DOMAIN tasks :
           /\ last.task_id = Some(tasks[i].id)
           /\ resets[tasks[i].id] = [rewrite |-> 1, retry |-> 0]
           /\ tasks[i].task_type = Some(GENERATE_TASK_TYPE)
           /\ tasks[i].status = PENDING
           /\ tasks[i].result = None
           /\ tasks[i].created_at = now
           /\ now > 0

\* The anchors the stored payload of a generation task carries.
AnchorsOf(task) ==
    LET loaded == JsonLoads(task.user_message)
    IN  IF ~loaded.ok \/ loaded.value.semantic_facts = None THEN <<>>
        ELSE RequiredAnchors(loaded.value.semantic_facts[1])

LacksAnchor(task) ==
    \E k \in DOMAIN AnchorsOf(task) :
        ~Contains(AnchorsOf(task)[k], ResultOrEmpty(task.result))

\* C6 (as claimed): polling a generation task that a worker popped and
\* completed with a result that lacks an anchor resets it to pending with the retry bit set when no retry was made
\* yet, and fails it with a grounding error when one was.
C6_RetryOnceThenFail ==
    \A i \in DOMAIN tasks :
        LET task == tasks[i]
            after == GetReadmeStatus(tasks, task.id, now).tasks[i]
            resp == GetReadmeResultResponse(tasks, task.id, now)
        IN  (/\ task.task_type = Some(GENERATE_TASK_TYPE)
             /\ task.status = COMPLETED
             /\ track[task.id] = "completed"
             /\ LacksAnchor(task))
            => IF RetryBit(task)
               THEN /\ after.status = FAILED
                    /\ resp.status = Some(FAILED)
                    /\ resp.error = Some("README grounding validation failed")
               ELSE /\ after.status = PENDING
                    /\ RetryBit(after)
                    /\ after.result = None
                    /\ after.created_at = now
                    /\ after.id = task.id

\* C7: the grounding retry happens at most once per task id: the retry bit,
\* once stored, stays, no step resets a task whose bit is set, and no task
\* counts more than one retry.
C7_SingleRetry ==
    /\ [][\A task_id \in Ids(tasks) \cap Ids(tasks') :
            RetryBit(Lookup(tasks, task_id)) =>
                /\ RetryBit(Lookup(tasks', task_id))
                /\ ~(StatusOf(tasks, task_id) # PENDING /\ StatusOf(tasks', task_id) = PENDING)]_vars
    /\ [](\A i \in DOMAIN resets : resets[i].retry <= 1)

\* A task that was retried once, completed again without its anchors, and was
\* failed by the poll instead of being reset a second time.
C7_Witness ==
    /\ last.op = "get_readme_result"
    /\ last.status = Some(FAILED)
    /\ last.error = Some("README grounding validation failed")
    /\ \E i \in DOMAIN tasks :
           /\ last.task_id = Some(tasks[i].id)
           /\ resets[tasks[i].id].retry = 1
           /\ RetryBit(tasks[i])
           /\ tasks[i].status = FAILED

\* A step that stores a new task (and so runs the garbage collector first).
InsertStep == issued' # issued

\* C8: after an insert, a task that was completed and older than the TTL is
\* gone, and a completed task no older than the TTL is still there.
C8_ExpiredCompletedCollected ==
    [][InsertStep =>
         \A i \in DOMAIN tasks :
             tasks[i].status = COMPLETED =>
                 IF now - tasks[i].created_at > TASK_TTL_SECONDS
                 THEN tasks[i].id \notin Ids(tasks')
                 ELSE \E j \in DOMAIN tasks' : tasks'[j] = tasks[i]]_vars

\* The insert of task 2 collected task 1, completed more than the TTL ago.
C8_Witness ==
    /\ last.op = "generate_readme"
    /\ last.task_id = Some(2)
    /\ last.collected = {1}
    /\ Ids(tasks) = {2}
    /\ now > TASK_TTL_SECONDS

\* C9: the garbage collector removes no pending, processing or failed task,
\* whatever its age: every step keeps the records that are not completed, and
\* an insert keeps them as they are.
C9_OnlyCompletedCollected ==
    [][\A i \in DOMAIN tasks :
           tasks[i].status # COMPLETED =>
               /\ tasks[i].id \in Ids(tasks')
               /\ InsertStep => \E j \in DOMAIN tasks' : tasks'[j] = tasks[i]]_vars

\* An insert has just run past a task that is older than the TTL and not completed.
C9_Witness ==
    /\ last.op = "generate_readme"
    /\ \E i \in DOMAIN tasks :
           /\ Some(tasks[i].id) # last.task_id
           /\ tasks[i].status \in {PENDING, PROCESSING, FAILED}
           /\ now - tasks[i].created_at > TASK_TTL_SECONDS
    /\ \E i \in DOMAIN tasks :
           /\ Some(tasks[i].id) = last.task_id
           /\ tasks[i].created_at = now

\* C10 (as claimed): no state holds a completed record older than the TTL, and
\* no read returns one.
C10_NeverExpiredCompleted ==
    /\ \A i \in DOMAIN tasks : ~IsOld(tasks[i], now)
    /\ \A task_id \in 1..issued :
           LET resp == GetTaskStatusResponse(tasks, task_id)
           IN  ~(/\ resp.code = 200
                 /\ resp.status = Some(COMPLETED)
                 /\ now - Lookup(tasks, task_id).created_at > TASK_TTL_SECONDS)

\* C10 (amended): right after an insert the store holds no completed record
\* older than the TTL.
C10_NoExpiredCompletedAfterInsert ==
    [][InsertStep => \A i \in DOMAIN tasks' : ~IsOld(tasks'[i], now')]_vars

\* An insert has just collected an expired record and left none behind.
C10_Witness ==
    /\ last.op = "generate_readme"
    /\ last.collected # {}
    /\ \A i \in DOMAIN tasks : ~IsOld(tasks[i], now)
    /\ \E i \in DOMAIN tasks : Some(tasks[i].id) = last.task_id /\ tasks[i].created_at = now

\* C11 (as claimed): every completed task -- popped by a worker and then
\* completed -- has a result, also when the body of the worker's complete_task
\* request has no "result" key.
C11_CompletedHasResult ==
    \A i \in DOMAIN tasks :
        (tasks[i].status = COMPLETED /\ track[tasks[i].id] = "completed")
            => tasks[i].result # None

\* C12: every pending or processing task has no result: none at creation,
\* none added by pop_task, and both resets of get_readme_status clear it
\* in the step that makes the task pending.
C12_UnfinishedHasNoResult ==
    /\ [](\A i \in DOMAIN tasks :
             tasks[i].status \in {PENDING, PROCESSING} => tasks[i].result = None)
    /\ [][\A task_id \in Ids(tasks) \cap Ids(tasks') :
             ResetKind(tasks, tasks', task_id) # "none" =>
                 /\ Lookup(tasks, task_id).result # None
                 /\ Lookup(tasks', task_id).result = None]_vars

\* A task that went through both resets with a result each time and is being
\* worked on for the third time, without a result.
C12_Witness ==
    \E i \in DOMAIN tasks :
        /\ resets[tasks[i].id] = [rewrite |-> 1, retry |-> 1]
        /\ tasks[i].status = PROCESSING
        /\ tasks[i].result = None
        /\ track[tasks[i].id] = "claimed again"

\* C13 (as claimed): at any time at most one worker holds a task, where a
\* worker holds a task from the pop_task call that returned it to that worker
\* until that worker's own complete_task call for it; a complete_task call from
\* a worker that does not hold the task never leads to a second holder.
C13_OneHolder ==
    \A i \in DOMAIN held : Cardinality(held[i]) <= 1

\* C14 (as claimed): the commit lifecycle.  Posting a commit request creates a
\* task and answers with its id; the poll then says pending; with nothing else
\* pending, pop_task returns that task as processing; complete_task with a
\* result r answers ok; the next poll says completed with commit_message r.
C14_CommitLifecycle ==
    \A body \in CommitBodies, r \in QueueResults :
        LET task_id == issued + 1
            queued == QueueCommitGeneration(tasks, CommitRequest(body), task_id, now)
            popped == PopPendingTask(queued.tasks)
            done == CompleteTask(popped.tasks, task_id, r, now)
        IN  (issued < MaxTasks /\ PendingCount(tasks) = 0) =>
                /\ GenerateCommitResponse(tasks, body, task_id, now).code = 200
                /\ GenerateCommitResponse(tasks, body, task_id, now).task_id = Some(task_id)
                /\ GetCommitResultResponse(queued.tasks, task_id).code = 200
                /\ GetCommitResultResponse(queued.tasks, task_id).status = Some(PENDING)
                /\ popped.ret # None
                /\ popped.ret[1].id = task_id
                /\ popped.ret[1].status = PROCESSING
                /\ CompleteTaskResponse(task_id, done.ret).code = 200
                /\ GetCommitResultResponse(done.tasks, task_id).status = Some(COMPLETED)
                /\ GetCommitResultResponse(done.tasks, task_id).content = r

\* C15: with no task pending -- the store empty, or holding only processing,
\* completed and failed tasks -- pop_task answers at once with 404 "No pending
\* tasks" and leaves the store as it was.
C15_EmptyPop ==
    /\ [](PendingCount(tasks) = 0 =>
             /\ ENABLED PopTask
             /\ PopPendingTask(tasks) = [tasks |-> tasks, ret |-> None]
             /\ PopTaskResponse(PopPendingTask(tasks).ret).code = 404
             /\ PopTaskResponse(PopPendingTask(tasks).ret).error = Some("No pending tasks"))
    /\ [][PendingCount(tasks) = 0 => ~C4_PopStep]_vars

\* Nothing is pending in a store that holds a processing and a failed task.
C15_Witness ==
    /\ PendingCount(tasks) = 0
    /\ \E i \in DOMAIN tasks : tasks[i].status = PROCESSING
    /\ \E i \in DOMAIN tasks : tasks[i].status = FAILED
    /\ PopPendingTask(tasks).ret = None

\* A complete_task call that found its task.
C16_CompleteStep ==
    /\ last'.op = "complete_task"
    /\ (last' # last \/ tasks' # tasks)

\* C16: complete_task on a stored id sets that task's status to completed, its
\* result to the result given and its timestamp to now, answers ok, and
\* changes no other task and no other field of that task.
C16_CompleteSetsThree ==
    /\ [](\A task_id \in Ids(tasks), r \in GcResults :
             LET out == CompleteTask(tasks, task_id, r, now)
                 i == IndexOf(tasks, task_id)
             IN  /\ out.tasks = [tasks EXCEPT ![i].status = COMPLETED,
                                               ![i].result = r,
                                               ![i].created_at = now]
                 /\ out.ret = Some(out.tasks[i])
                 /\ CompleteTaskResponse(task_id, out.ret).code = 200
                 /\ CompleteTaskResponse(task_id, out.ret).status = Some("ok"))
    /\ [][C16_CompleteStep =>
            LET i == IndexOf(tasks, last'.task_id[1])
            IN  /\ last'.task_id[1] \in Ids(tasks)
                /\ tasks'[i].result \in GcResults
                /\ tasks' = [tasks EXCEPT ![i].status = COMPLETED,
                                           ![i].result = tasks'[i].result,
                                           ![i].created_at = now]
                /\ last'.code = 200
                /\ last'.status = Some("ok")
                /\ <<now', issued', resets'>> = <<now, issued, resets>>]_vars

\* A task completed long after it was created, next to a task still pending
\* since then.
C16_Witness ==
    /\ last.op = "complete_task"
    /\ now > 0
    /\ \E i, j \in DOMAIN tasks :
           /\ last.task_id = Some(tasks[i].id)
           /\ tasks[i].status = COMPLETED
           /\ tasks[i].result # None
           /\ tasks[i].created_at = now
           /\ tasks[j].status = PENDING
           /\ tasks[j].created_at = 0

\* C17: get_task, get_readme_status, get_commit_status and complete_task on an
\* id the store does not hold -- never issued, or collected -- answer not
\* found and leave the store as it was; complete_task does not bring a
\* collected record back.
C17_AbsentIdNotFound ==
    \A task_id \in 1..(MaxGcTasks + 1), r \in GcResults :
        task_id \notin Ids(tasks) =>
            /\ GetTask(tasks, task_id) = None
            /\ GetTaskStatusResponse(tasks, task_id).code = 404
            /\ GetReadmeStatus(tasks, task_id, now) = [tasks |-> tasks, resp |-> None, raised |-> FALSE]
            /\ GetReadmeResultResponse(tasks, task_id, now).code = 404
            /\ GetCommitStatus(tasks, task_id) = None
            /\ GetCommitResultResponse(tasks, task_id).code = 404
            /\ CompleteTask(tasks, task_id, r, now) = [tasks |-> tasks, ret |-> None]
            /\ CompleteTaskResponse(task_id, CompleteTask(tasks, task_id, r, now).ret).code = 404

\* Task 1 was collected when task 2 was stored; task 2 is held by a worker.
C17_Witness ==
    /\ issued = 2
    /\ Ids(tasks) = {2}
    /\ StatusOf(tasks, 2) = PROCESSING
    /\ CompleteTask(tasks, 1, Some(Text("plain", {FILLER})), now).tasks = tasks

\* One of the checks that get_readme_status makes before the rewrite fails on
\* this completed analysis task.
C18_RewriteCheckFails(task) ==
    LET loaded == JsonLoads(task.user_message)
    IN  /\ task.task_type = Some(ANALYZE_TASK_TYPE)
        /\ task.status = COMPLETED
        /\ \/ ~ValidatesAsIntent(task.result)
           \/ ~loaded.ok
           \/ ~TruthyStr(RepoTypeOf(loaded.value))

\* C18 (as claimed): when the poll finds a completed analysis task that fails
\* a rewrite check, the task becomes failed, the poll answers failed with an
\* error, phase and instructions stay as they were, and no later poll makes the
\* task pending again.
C18_RejectedAnalysisStaysFailed ==
    /\ \A i \in DOMAIN tasks :
           LET task == tasks[i]
               after == GetReadmeStatus(tasks, task.id, now).tasks[i]
               resp == GetReadmeResultResponse(tasks, task.id, now)
           IN  C18_RewriteCheckFails(task) =>
                   /\ after = [task EXCEPT !.status = FAILED]
                   /\ resp.status = Some(FAILED)
                   /\ resp.error # None
    /\ \A i \in DOMAIN tasks :
           rejected[tasks[i].id] =>
               /\ tasks[i].task_type = Some(ANALYZE_TASK_TYPE)
               /\ tasks[i].status # PENDING

\* C19 (as claimed): polling a generation task that a worker popped and
\* completed, and whose stored payload does not parse or carries no anchor to
\* check the readme against, fails the task; the poll never answers completed
\* with the worker's unchecked result as content.
C19_UngroundedNeverPassed ==
    \A i \in DOMAIN tasks :
        LET task == tasks[i]
            after == GetReadmeStatus(tasks, task.id, now).tasks[i]
            resp == GetReadmeResultResponse(tasks, task.id, now)
        IN  (/\ task.task_type = Some(GENERATE_TASK_TYPE)
             /\ task.status = COMPLETED
             /\ track[task.id] = "completed"
             /\ task.result # None
             /\ (~JsonLoads(task.user_message).ok \/ AnchorsOf(task) = <<>>))
            => /\ after.status = FAILED
               /\ resp.status = Some(FAILED)
               /\ ~(resp.status = Some(COMPLETED) /\ resp.content = task.result)

\* C20 (as claimed): whenever the poll answers completed for a generation task
\* that a worker popped and completed, the content it returns holds every
\* anchor of the stored semantic facts -- also when there are fewer than three
\* anchors, and also when the content is empty.
C20_CompletedIsGrounded ==
    \A i \in DOMAIN tasks :
        LET task == tasks[i]
            resp == GetReadmeResultResponse(tasks, task.id, now)
        IN  (/\ task.task_type = Some(GENERATE_TASK_TYPE)
             /\ task.status = COMPLETED
             /\ track[task.id] = "completed"
             /\ task.result # None
             /\ resp.code = 200
             /\ resp.status = Some(COMPLETED))
            => \A k \in DOMAIN AnchorsOf(task) :
                   Contains(AnchorsOf(task)[k], ResultOrEmpty(resp.content))

\* C21 (as claimed): once get_readme_result has answered completed or failed
\* for a task id, no later pop, complete or poll changes the stored status,
\* and every later poll of that id answers the same status while the record is
\* stored.
C21_ReportedFinalStays ==
    \A id \in DOMAIN told :
        (told[id] # None /\ id \in Ids(tasks)) =>
            /\ Some(StatusOf(tasks, id)) = told[id]
            /\ GetReadmeResultResponse(tasks, id, now).status = told[id]

\* C22 (as claimed): a generation task that get_readme_status has failed on
\* the grounding check after its one retry is answered, on every poll, with
\* status failed, an error that describes the grounding failure and no
\* content.
C22_GroundingFailureEveryPoll ==
    \A i \in DOMAIN tasks :
        LET task == tasks[i]
            resp == GetReadmeResultResponse(tasks, task.id, now)
        IN  (/\ task.task_type = Some(GENERATE_TASK_TYPE)
             /\ task.status = FAILED
             /\ RetryBit(task))
            => /\ resp.status = Some(FAILED)
               /\ resp.error # None
               /\ resp.content = None

\* A readme body the service must refuse: no name (absent, empty or blank), or
\* a repository type that is absent or not one of the three supported ones.
C23_Refused(fact) ==
    \/ fact.repository.name \in {None, Some(""), Some(" ")}
    \/ fact.repository.repo_type \notin {"research", "library", "service"}

\* C23: a readme request that fails validation is refused with an error and a
\* synchronous readme request is served without the queue: neither creates a
\* task, collects a record or changes any stored record.
C23_RefusedOrSyncNoTask ==
    \A fact \in GcFacts, async_mode \in BOOLEAN :
        LET out == GenerateReadmeEndpoint(tasks, fact, async_mode, issued + 1, now)
        IN  /\ C23_Refused(fact) =>
                /\ out.tasks = tasks
                /\ out.ret = None
                /\ out.code \in {400, 422}
            /\ ~async_mode =>
                /\ out.tasks = tasks
                /\ out.ret = None

\* A store in which an accepted asynchronous request adds a record and collects
\* an expired one, while refused and synchronous requests arrive.
C23_Witness ==
    /\ KeysToDelete(tasks, now) # {}
    /\ issued < MaxGcTasks
    /\ \E fact \in GcFacts :
           /\ ~C23_Refused(fact)
           /\ GenerateReadmeEndpoint(tasks, fact, TRUE, issued + 1, now).tasks # tasks
    /\ \E fact \in GcFacts : GenerateReadmeEndpoint(tasks, fact, TRUE, issued + 1, now).code = 400
    /\ \E fact \in GcFacts : GenerateReadmeEndpoint(tasks, fact, TRUE, issued + 1, now).code = 422

\* C24: get_task and the get_task_status endpoint leave the store as it is:
\* the same ids in the same order, and every record with the same status,
\* phase, instructions, result and timestamp; the answer is the stored record
\* or 404.
C24_GetLeavesStore ==
    \A task_id \in 1..(MaxGcTasks + 1) :
        LET out == GetTaskStatusEndpoint(tasks, task_id)
        IN  /\ out.tasks = tasks
            /\ IF task_id \in Ids(tasks)
               THEN /\ GetTask(tasks, task_id) = Some(Lookup(tasks, task_id))
                    /\ out.resp.code = 200
                    /\ out.resp.status = Some(StatusOf(tasks, task_id))
                    /\ out.resp.content = Lookup(tasks, task_id).result
               ELSE /\ GetTask(tasks, task_id) = None
                    /\ out.resp.code = 404

\* A read of a completed record that is older than the TTL, next to a record
\* that is still pending: the read answers 200 and collects nothing.
C24_Witness ==
    \E old \in Ids(tasks), fresh \in Ids(tasks) :
        /\ old \in KeysToDelete(tasks, now)
        /\ StatusOf(tasks, fresh) = PENDING
        /\ GetTaskStatusEndpoint(tasks, old).resp.code = 200
        /\ GetTaskStatusEndpoint(tasks, old).resp.content # None

\* The ids of the stored records, in the order of the dict.
C25_IdsInOrder(ts) == [i \in DOMAIN ts |-> ts[i].id]

\* C25: a phase rewrite and a grounding retry keep the record under the id
\* generate_readme answered and add or remove no record; the ids stored change
\* only in a step that inserts a task, which adds one record and removes the
\* ones the garbage collector picks; no id is stored twice.
C25_OneIdEndToEnd ==
    [][ /\ C25_IdsInOrder(tasks') # C25_IdsInOrder(tasks) => InsertStep
        /\ \A id \in Ids(tasks) :
               ResetKind(tasks, tasks', id) # "none" =>
                   /\ C25_IdsInOrder(tasks') = C25_IdsInOrder(tasks)
                   /\ Lookup(tasks', id).domain = Lookup(tasks, id).domain
        /\ InsertStep =>
               /\ Len(tasks') = Len(tasks) + 1 - Cardinality(KeysToDelete(tasks, now))
               /\ Ids(tasks') = (Ids(tasks) \ KeysToDelete(tasks, now)) \cup {issued'}
        /\ \A i, j \in DOMAIN tasks' : tasks'[i].id = tasks'[j].id => i = j ]_vars

\* The task went through both resets, a phase rewrite and a grounding retry,
\* and is the one record of the store, under the id the enqueue answered.
C25_Witness ==
    /\ issued = 1
    /\ C25_IdsInOrder(tasks) = <<1>>
    /\ resets[1] = [rewrite |-> 1, retry |-> 1]
    /\ tasks[1].task_type = Some(GENERATE_TASK_TYPE)
    /\ tasks[1].status = PENDING
    /\ last.op = "get_readme_result"
    /\ last.task_id = Some(1)

\* The step completed the record id through complete_task.
C26_Completed(id) ==
    /\ C16_CompleteStep
    /\ last'.code = 200
    /\ last'.task_id = Some(id)

\* C26: created_at is the time of the insert; afterwards it changes only when
\* complete_task completes the record or get_readme_status resets it to
\* pending, and then to the current time; a pop, a read, a poll that does not
\* reset and a poll that fails the record leave it alone; it never decreases.
C26_TimestampSteps ==
    [][ /\ InsertStep => Lookup(tasks', issued').created_at = now
        /\ \A id \in Ids(tasks) \cap Ids(tasks') :
               LET before == Lookup(tasks, id)
                   after == Lookup(tasks', id)
                   reset == ResetKind(tasks, tasks', id) # "none"
               IN  /\ after.created_at >= before.created_at
                   /\ (C26_Completed(id) \/ reset) => after.created_at = now
                   /\ ~(C26_Completed(id) \/ reset) => after.created_at = before.created_at
                   /\ after.status \in {PROCESSING, FAILED} =>
                          after.created_at = before.created_at ]_vars

\* The poll failed a record at a time later than its timestamp: the record is
\* failed and still carries the time of its last completion.
C26_Witness ==
    /\ last.op = "get_readme_result"
    /\ last.status = Some(FAILED)
    /\ \E i \in DOMAIN tasks :
           /\ last.task_id = Some(tasks[i].id)
           /\ tasks[i].status = FAILED
           /\ tasks[i].created_at < now
           /\ track[tasks[i].id] # "idle"

\* C27 (as claimed): the garbage collector removes no completed analysis
\* record -- a record whose result no poll has inspected yet, since the poll
\* that inspects it rewrites or fails it.
C27_UninspectedNeverCollected ==
    [][InsertStep =>
         \A id \in Ids(tasks) \ Ids(tasks') :
             Lookup(tasks, id).task_type # Some(ANALYZE_TASK_TYPE)]_vars

\* C27 (amended): the garbage collector looks at status and age only.  Every
\* record an insert removes is completed and older than the TTL, and a
\* completed analysis record older than the TTL, which no poll has inspected,
\* is removed by the insert like any other completed record.
C27_CollectedByStatusAndAge ==
    [][InsertStep =>
         /\ \A id \in Ids(tasks) \ Ids(tasks') :
                /\ StatusOf(tasks, id) = COMPLETED
                /\ now - Lookup(tasks, id).created_at > TASK_TTL_SECONDS
         /\ \A id \in Ids(tasks) :
                (/\ Lookup(tasks, id).task_type = Some(ANALYZE_TASK_TYPE)
                 /\ StatusOf(tasks, id) = COMPLETED
                 /\ now - Lookup(tasks, id).created_at > TASK_TTL_SECONDS)
                => id \notin Ids(tasks')]_vars

\* The insert collected a task that a worker completed and that was never
\* rewritten: its analysis result was dropped before any poll looked at it.
C27_Witness ==
    /\ last.op = "generate_readme"
    /\ \E id \in last.collected :
           /\ id \notin Ids(tasks)
           /\ resets[id] = [rewrite |-> 0, retry |-> 0]
           /\ track[id] = "completed"

\* C28 (as claimed): an insert removes every failed record older than the TTL,
\* as it removes a completed one.
C28_ExpiredFailedCollected ==
    [][InsertStep =>
         \A id \in Ids(tasks) :
             (/\ StatusOf(tasks, id) = FAILED
              /\ now - Lookup(tasks, id).created_at > TASK_TTL_SECONDS)
             => id \notin Ids(tasks')]_vars

\* C28 (amended): a failed record is never collected.  An insert keeps a
\* failed record older than the TTL exactly as it was, and get_task_status
\* still answers it, while it removes the completed records of that age.
C28_ExpiredFailedKept ==
    [][InsertStep =>
         \A id \in Ids(tasks) :
             now - Lookup(tasks, id).created_at > TASK_TTL_SECONDS =>
                 /\ StatusOf(tasks, id) = FAILED =>
                        /\ id \in Ids(tasks')
                        /\ Lookup(tasks', id) = Lookup(tasks, id)
                        /\ GetTaskStatusResponse(tasks', id) = GetTaskStatusResponse(tasks, id)
                        /\ GetTaskStatusResponse(tasks', id).status = Some(FAILED)
                 /\ StatusOf(tasks, id) = COMPLETED => id \notin Ids(tasks')]_vars

\* An insert has just run past a failed record older than the TTL: the record
\* is still stored, failed, with its old timestamp.
C28_Witness ==
    /\ last.op = "generate_readme"
    /\ last.collected = {}
    /\ \E id \in Ids(tasks) :
           /\ Some(id) # last.task_id
           /\ StatusOf(tasks, id) = FAILED
           /\ now - Lookup(tasks, id).created_at > TASK_TTL_SECONDS
           /\ GetTaskStatusResponse(tasks, id).code = 200

\* C29 (as claimed): while a readme task holds the result of its analysis
\* phase, completed by the worker that popped it, no client read -- the readme
\* poll, the commit poll with that id, get_task_status -- answers completed
\* with that analysis result as content.
C29_AnalysisResultHidden ==
    \A i \in DOMAIN tasks :
        LET task == tasks[i]
            readme == GetReadmeResultResponse(tasks, task.id, now)
            commit == GetCommitResultResponse(tasks, task.id)
            generic == GetTaskStatusResponse(tasks, task.id)
        IN  (/\ task.task_type = Some(ANALYZE_TASK_TYPE)
             /\ task.status = COMPLETED
             /\ track[task.id] = "completed"
             /\ ValidatesAsIntent(task.result))
            => /\ ~(readme.status = Some(COMPLETED) /\ readme.content = task.result)
               /\ ~(commit.status = Some(COMPLETED) /\ commit.content = task.result)
               /\ ~(generic.status = Some(COMPLETED) /\ generic.content = task.result)

\* The store ts2 is the store ts after the garbage collector ran, plus one new
\* record under task_id: pending, without result, in the phase task_type.
C30_OneFreshPending(ts, ts2, task_id, task_type) ==
    /\ task_id \notin Ids(ts)
    /\ Len(ts2) = Len(CleanupOldTasks(ts, now)) + 1
    /\ SubSeq(ts2, 1, Len(ts2) - 1) = CleanupOldTasks(ts, now)
    /\ ts2[Len(ts2)].id = task_id
    /\ ts2[Len(ts2)].status = PENDING
    /\ ts2[Len(ts2)].result = None
    /\ ts2[Len(ts2)].task_type = task_type

\* C30 (as claimed): an enqueue stores exactly one new record under a fresh
\* id, pending and without result, and answers that id; an asynchronous readme
\* request stores it in the analysis phase, a commit request with no phase;
\* the records the garbage collector does not remove stay as they were.
C30_EnqueueCreatesOne ==
    /\ \A fact \in GcFacts :
           LET out == GenerateReadmeEndpoint(tasks, fact, TRUE, issued + 1, now)
           IN  ~C23_Refused(fact) =>
                   /\ out.code = 200
                   /\ out.ret = Some(issued + 1)
                   /\ C30_OneFreshPending(tasks, out.tasks, issued + 1,
                                          Some(ANALYZE_TASK_TYPE))
    /\ \A body \in CommitBodies :
           LET out == QueueCommitGeneration(tasks, CommitRequest(body), issued + 1, now)
           IN  /\ ~out.raised
               /\ out.ret = Some(issued + 1)
               /\ GenerateCommitResponse(tasks, body, issued + 1, now).code = 200
               /\ C30_OneFreshPending(tasks, out.tasks, issued + 1, None)

\* The dict as it was when coroutine c began to run.
C31_Began(c) == IF Me(c).pc = FirstPc(Me(c).op) THEN tasks ELSE Me(c).before

\* The step is the one in which coroutine c returns.
C31_Returns(c) == Me(c).pc # "idle" /\ loop'.co[c] = Idle

\* C31: add_task with its garbage collection, get_task, pop_pending_task and
\* complete_task each run as one atomic step.  From the first statement of
\* one of them to its return no other coroutine starts or executes a
\* statement, the record a pop or a complete has read is still in the dict
\* when it is written, and the dict at the return is the dict at the start
\* with the whole operation applied to it.
C31_StoreOpsAtomic ==
    [][\A c \in Coroutines :
           Me(c).op \in {"add_task", "get_task", "pop_pending_task", "complete_task"} =>
               /\ \A d \in Coroutines \ {c} : loop'.co[d] = loop.co[d]
               /\ Me(c).pc \in {"mark", "set_status", "set_result", "set_stamp"} =>
                      Me(c).id \in Ids(tasks)
               /\ C31_Returns(c) =>
                      tasks' = CASE Me(c).op = "add_task" ->
                                        AddTask(C31_Began(c),
                                                IntentTask(Me(c).id, LoopFact, now), now)
                                 [] Me(c).op = "get_task" -> C31_Began(c)
                                 [] Me(c).op = "pop_pending_task" ->
                                        PopPendingTask(C31_Began(c)).tasks
                                 [] Me(c).op = "complete_task" ->
                                        CompleteTask(C31_Began(c), Me(c).id,
                                                     Me(c).result, now).tasks]_vars

\* complete_task is between its assignments: the record is already completed,
\* still carries its old result and its old timestamp, and is older than the
\* TTL -- the garbage collector would delete it, and an add_task could be
\* requested.
C31_Witness ==
    \E c \in Coroutines :
        /\ Me(c).op = "complete_task"
        /\ Me(c).pc = "set_result"
        /\ Me(c).id \in KeysToDelete(tasks, now)
        /\ Lookup(tasks, Me(c).id).result # Me(c).result
        /\ issued < MaxLoopTasks

\* C32: get_readme_status reads the record, tests it and rewrites it in one
\* run.  From its first test to its return no other coroutine -- a second
\* poll, a pop, a complete -- starts or executes a statement, so none sees the
\* record pending with its old result or instructions; a reset is applied
\* only to a record that is still completed, so two polls of one completed
\* record reset it once; and the dict at the return is the dict at the start
\* with the whole of get_readme_status applied to it.
C32_PollRunsUnsuspended ==
    [][\A c \in Coroutines :
           Me(c).op = "get_readme_status" =>
               /\ Me(c).pc \in {"inspect", "begin", "finish"} =>
                      \A d \in Coroutines \ {c} : loop'.co[d] = loop.co[d]
               /\ (Me(c).pc = "begin" /\ Me(c).plan[1].status = PENDING) =>
                      /\ Me(c).id \in Ids(tasks)
                      /\ StatusOf(tasks, Me(c).id) = COMPLETED
               /\ C31_Returns(c) =>
                      tasks' = GetReadmeStatus(C31_Began(c), Me(c).id, now).tasks]_vars

\* The poll is in the middle of a phase rewrite: the record is already a
\* pending generation task and still carries the analysis result and the
\* analysis instructions.
C32_Witness ==
    \E c \in Coroutines :
        /\ Me(c).op = "get_readme_status"
        /\ Me(c).pc = "finish"
        /\ Me(c).id \in Ids(tasks)
        /\ Lookup(tasks, Me(c).id).status = PENDING
        /\ Lookup(tasks, Me(c).id).task_type = Some(GENERATE_TASK_TYPE)
        /\ Lookup(tasks, Me(c).id).result # None
        /\ Lookup(tasks, Me(c).id).system_instruction = IntentSystemPrompt
        /\ FirstPending(tasks) # 0

\* C33: add_task runs the garbage collector before it stores the record, so
\* the collector sees the records that were there before and never the new
\* one: whatever the status and the timestamp of the record given, the dict
\* afterwards is the collected dict with that record appended, and get_task
\* returns it.
C33_InsertedIsPresent ==
    \A status \in {PENDING, PROCESSING, COMPLETED, FAILED}, created_at \in {0, now} :
        LET task == [IntentTask(issued + 1, LoopFact, created_at) EXCEPT
                        !.status = status,
                        !.result = IF status = COMPLETED THEN Some(Text("plain", {FILLER}))
                                   ELSE None]
            after == AddTask(tasks, task, now)
        IN  /\ after = Append(CleanupOldTasks(tasks, now), task)
            /\ GetTask(after, task.id) = Some(task)
            /\ Ids(after) = (Ids(tasks) \ KeysToDelete(tasks, now)) \cup {task.id}

\* An insert has just run at a time past the TTL: it collected an expired
\* record and stored the new one -- a record that, completed and stamped 0,
\* the collector would have deleted had it run after the store.
C33_Witness ==
    /\ last.op = "generate_readme"
    /\ last.collected # {}
    /\ last.task_id = Some(issued)
    /\ GetTask(tasks, issued) # None
    /\ IsOld([Lookup(tasks, issued) EXCEPT !.status = COMPLETED, !.created_at = 0], now)

\* C34: with a worker that keeps popping and reports once for each task it
\* popped, and a client that keeps polling, every readme task that was
\* enqueued is eventually answered completed or failed by a poll -- again and
\* again a state comes in which every stored task has had that answer, and an
\* answer once given stays; on the way a task is reset at most twice and
\* popped only when new or after a reset, which makes at most three rounds of
\* pop and complete.
C34_EventuallyAnswered ==
    /\ [](\A id \in DOMAIN resets :
              /\ resets[id].rewrite + resets[id].retry <= 2
              /\ track[id] # "reclaimed")
    /\ []<>(\A id \in Ids(tasks) : told[id] # None)

\* A task was popped and completed three times -- analysis, generation,
\* stricter generation -- and the poll has given its final answer.
C34_Witness ==
    \E id \in DOMAIN told :
        /\ resets[id] = [rewrite |-> 1, retry |-> 1]
        /\ track[id] = "completed"
        /\ told[id] # None

\* C35: with a worker that keeps calling pop_task no pending task waits for
\* ever: whenever a task is pending it is later handed out, whatever is
\* enqueued or put back to pending in between, and a pop hands out a task
\* ahead of a pending one only if it was inserted before it.
C35_Has(task_id, statuses) ==
    \E i \in DOMAIN tasks : tasks[i].id = task_id /\ tasks[i].status \in statuses

C35_Bypassed(j) ==
    /\ tasks[j].status = PENDING
    /\ tasks'[j].status = PENDING

C35_NoStarvation ==
    /\ [][(last' # last /\ last'.op = "pop_task") =>
              \A j \in DOMAIN tasks :
                  C35_Bypassed(j) => IndexOf(tasks, last'.task_id[1]) < j]_vars
    /\ \A task_id \in 1..MaxLiveTasks :
           C35_Has(task_id, {PENDING}) ~> C35_Has(task_id, {PROCESSING})

\* Task 2 is handed out for the first time after task 1, inserted before it,
\* has been put back to pending twice and handed out each time.
C35_Witness ==
    /\ last.op = "pop_task"
    /\ last.task_id = Some(2)
    /\ Len(track) >= 2
    /\ track[2] = "claimed"
    /\ resets[2] = [rewrite |-> 0, retry |-> 0]
    /\ resets[1] = [rewrite |-> 1, retry |-> 1]

\* C36: a task that get_readme_status put back to pending, by the phase
\* rewrite or by the grounding retry, stays where it was inserted: the store
\* keeps the order of enqueueing, and while the task is pending pop_task
\* returns it or a task inserted before it, never one enqueued later, also
\* when the later one carries the older created_at.
C36_WasReset(task_id) ==
    resets[task_id].rewrite + resets[task_id].retry > 0

C36_ResetKeepsPlace ==
    /\ \A i, j \in DOMAIN tasks : i < j => tasks[i].id < tasks[j].id
    /\ \A i \in DOMAIN tasks :
           (tasks[i].status = PENDING /\ C36_WasReset(tasks[i].id)) =>
               LET out == PopPendingTask(tasks)
               IN  /\ out.ret # None
                   /\ IndexOf(tasks, out.ret[1].id) <= i

\* Task 1, put back twice and stamped later than task 2, has just been
\* handed out while task 2 is still pending.
C36_Witness ==
    /\ last.op = "pop_task"
    /\ last.task_id = Some(1)
    /\ Ids(tasks) = {1, 2}
    /\ resets[1] = [rewrite |-> 1, retry |-> 1]
    /\ StatusOf(tasks, 1) = PROCESSING
    /\ StatusOf(tasks, 2) = PENDING
    /\ Lookup(tasks, 1).created_at > Lookup(tasks, 2).created_at

\* C37: the task_type of a stored task changes only from the analysis type to
\* the generation type; every step that takes a task from completed to
\* pending is one phase rewrite or one grounding retry; a task id is rewritten
\* at most once and put back to pending at most twice in all.
C37_Step(task_id) ==
    LET before == Lookup(tasks, task_id)
        after == Lookup(tasks', task_id)
    IN  /\ before.task_type # after.task_type =>
               /\ before.task_type = Some(ANALYZE_TASK_TYPE)
               /\ after.task_type = Some(GENERATE_TASK_TYPE)
        /\ (before.status = COMPLETED /\ after.status = PENDING) =>
               \/ /\ before.task_type = Some(ANALYZE_TASK_TYPE)
                  /\ after.task_type = Some(GENERATE_TASK_TYPE)
                  /\ resets'[task_id] = [resets[task_id] EXCEPT !.rewrite = @ + 1]
               \/ /\ before.task_type = Some(GENERATE_TASK_TYPE)
                  /\ after.task_type = Some(GENERATE_TASK_TYPE)
                  /\ resets'[task_id] = [resets[task_id] EXCEPT !.retry = @ + 1]

C37_PhaseForwardOnly ==
    /\ [][\A task_id \in Ids(tasks) \cap Ids(tasks') : C37_Step(task_id)]_vars
    /\ [](\A task_id \in DOMAIN resets :
              /\ resets[task_id].rewrite <= 1
              /\ resets[task_id].rewrite + resets[task_id].retry <= 2)

\* A task that went through the rewrite and the retry, now a generation task
\* completed for the third time.
C37_Witness ==
    /\ last.op = "complete_task"
    /\ \E i \in DOMAIN tasks :
           /\ last.task_id = Some(tasks[i].id)
           /\ tasks[i].task_type = Some(GENERATE_TASK_TYPE)
           /\ tasks[i].status = COMPLETED
           /\ resets[tasks[i].id] = [rewrite |-> 1, retry |-> 1]

====
